---- MODULE Spec2Model ----
(***************************************************************************)
(* Model of the widget generator of ai-dashboard (src/ai_generator.py):    *)
(* the configuration check, the model-candidate fallback run on the        *)
(* thread pool, and the cascade that extracts an HTML fragment from the    *)
(* completion text.                                                        *)
(*                                                                         *)
(* Text is a sequence of characters; a character is a one-character        *)
(* string.  Characters that cannot be written in a TLA+ string literal     *)
(* are named values (BT, WARN1, WARN2).                                    *)
(***************************************************************************)
EXTENDS Integers, Sequences, FiniteSets, TLC

(***************************************************************************)
(* Characters and Python's str helpers                                     *)
(***************************************************************************)
\* F(v), with v evaluated once
With(v, F(_)) == CHOOSE y \in {F(x) : x \in {v}} : TRUE

\* the characters of a string literal
Chars(str) == [i \in 1..Len(str) |-> SubSeq(str, i, i)]

BT == "BACKTICK"
WARN1 == "U+26A0"
WARN2 == "U+FE0F"

UpperCase == Chars("ABCDEFGHIJKLMNOPQRSTUVWXYZ")
LowerCase == Chars("abcdefghijklmnopqrstuvwxyz")
UpperSet == {UpperCase[i] : i \in 1..26}
LowerSet == {LowerCase[i] : i \in 1..26}
ToLower == [c \in UpperSet |-> LowerCase[CHOOSE i \in 1..26 : UpperCase[i] = c]]

ToUpper == [c \in LowerSet |-> UpperCase[CHOOSE i \in 1..26 : LowerCase[i] = c]]

Lower(c) == IF c \in UpperSet THEN ToLower[c] ELSE c
Upper(c) == IF c \in LowerSet THEN ToUpper[c] ELSE c
lower(s) == With(s, LAMBDA t : [i \in 1..Len(t) |-> Lower(t[i])])

Whitespace == {" ", "\n", "\t", "\r", "\f"}

SetMin(S) == CHOOSE x \in S : \A y \in S : x <= y
SetMax(S) == 0 - SetMin({0 - x : x \in S})

\* s[i-1:j-1] of Python, 1-based and inclusive; empty when j < i
Slice(s, i, j) == IF j < i THEN <<>> ELSE SubSeq(s, i, j)

\* lit occurs in s at position pos (ic: ignoring case)
SameChar(c, d, ic) == c = d \/ (ic /\ Lower(c) = Lower(d))
LitAt(s, pos, lit, ic) ==
    /\ pos + Len(lit) - 1 <= Len(s)
    /\ \A k \in 1..Len(lit) : SameChar(s[pos + k - 1], lit[k], ic)

\* sub in s
Contains(s, sub) ==
    With(s, LAMBDA t : With(sub, LAMBDA u :
        \E i \in 1..(Len(t) - Len(u) + 1) : LitAt(t, i, u, FALSE)))

startswith(s, pre) ==
    With(s, LAMBDA t : With(pre, LAMBDA u : LitAt(t, 1, u, FALSE)))
endswith(s, suf) ==
    With(s, LAMBDA t : With(suf, LAMBDA u :
        Len(u) <= Len(t) /\ LitAt(t, Len(t) - Len(u) + 1, u, FALSE)))

\* the positions of s that hold no whitespace
NonSpace(t) == {i \in 1..Len(t) : t[i] \notin Whitespace}
strip(s) ==
    With(s, LAMBDA t : With(NonSpace(t), LAMBDA S :
        IF S = {} THEN <<>> ELSE SubSeq(t, SetMin(S), SetMax(S))))
rstrip(s) ==
    With(s, LAMBDA t : With(NonSpace(t), LAMBDA S :
        IF S = {} THEN <<>> ELSE SubSeq(t, 1, SetMax(S))))

\* s.split('\n'): always at least one line
RECURSIVE splitLines(_, _)
splitLines(t, from) ==
    With({i \in from..Len(t) : t[i] = "\n"}, LAMBDA newlines :
        IF newlines = {} THEN <<Slice(t, from, Len(t))>>
        ELSE With(SetMin(newlines), LAMBDA p :
                <<Slice(t, from, p - 1)>> \o splitLines(t, p + 1)))
split_nl(s) == With(s, LAMBDA t : splitLines(t, 1))

\* '\n'.join(lines)
RECURSIVE joinFrom(_, _)
joinFrom(ls, i) ==
    IF i > Len(ls) THEN <<>>
    ELSE IF i = Len(ls) THEN ls[i]
    ELSE ls[i] \o <<"\n">> \o joinFrom(ls, i + 1)
join_nl(lines) == With(lines, LAMBDA ls : joinFrom(ls, 1))

(***************************************************************************)
(* Regular expressions of Python's re, for the constructs the source uses: *)
(* a pattern is a sequence of nodes, matched by backtracking in Python's   *)
(* priority order (alternatives left to right, greedy repetitions longest  *)
(* first, lazy repetitions shortest first); cap is group 1.                *)
(***************************************************************************)
Lit(str) == [t |-> "lit", alts |-> <<Chars(str)>>]
LitSeq(cs) == [t |-> "lit", alts |-> <<cs>>]
Alt(strs) == [t |-> "lit", alts |-> [i \in 1..Len(strs) |-> Chars(strs[i])]]
\* cls*, cls+ (min = 1), cls*? : a character c is in the class iff (c \in set) # neg
Rep(set, neg, min, greedy) ==
    [t |-> "rep", set |-> set, neg |-> neg, min |-> min, greedy |-> greedy]
GroupOpen == [t |-> "open"]
GroupClose == [t |-> "close"]

SpaceStar == Rep(Whitespace, FALSE, 0, TRUE)          \* \s*
NotGtStar == Rep({">"}, TRUE, 0, TRUE)                \* [^>]*
NotGtPlus == Rep({">"}, TRUE, 1, TRUE)                \* [^>]+
LowerStar == Rep(LowerSet, FALSE, 0, TRUE)            \* [a-z]*
LazyAny == Rep({}, TRUE, 0, FALSE)                    \* .*? with DOTALL

NoMatch == [ok |-> FALSE]

InClass(c, nd) == (c \in nd.set) # nd.neg

\* the number of consecutive characters of the class from pos on
Run(s, pos, nd) ==
    With({j \in pos..Len(s) : ~InClass(s[j], nd)}, LAMBDA stops :
        IF stops = {} THEN Len(s) - pos + 1 ELSE SetMin(stops) - pos)

\* a condition that the nodes n.. of re need to match at position pos: the
\* character there is one the next repetition takes, or the literal that
\* comes next occurs there
RECURSIVE Feasible(_, _, _, _, _)
Feasible(re, n, s, pos, ic) ==
    IF n > Len(re) THEN TRUE
    ELSE CASE re[n].t \in {"open", "close"} -> Feasible(re, n + 1, s, pos, ic)
           [] re[n].t = "lit" ->
                \E k \in 1..Len(re[n].alts) : LitAt(s, pos, re[n].alts[k], ic)
           [] re[n].t = "rep" ->
                \/ pos <= Len(s) /\ InClass(s[pos], re[n])
                \/ re[n].min = 0 /\ Feasible(re, n + 1, s, pos, ic)

\* the match of the nodes n.. of re at position pos of s; Try is the match of
\* n.. at the first of the positions at[k], k in keys, where there is one,
\* the keys taken from the largest down when greedy and from the least up
\* otherwise
RECURSIVE M(_, _, _, _, _, _), Try(_, _, _, _, _, _, _, _)
M(re, n, s, pos, cap, ic) ==
    IF n > Len(re) THEN [ok |-> TRUE, end |-> pos, cap |-> cap]
    ELSE CASE re[n].t = "open" -> M(re, n + 1, s, pos, <<pos, cap[2]>>, ic)
           [] re[n].t = "close" -> M(re, n + 1, s, pos, <<cap[1], pos>>, ic)
           [] re[n].t = "lit" ->
                \* the alternatives left to right
                With({k \in 1..Len(re[n].alts) : LitAt(s, pos, re[n].alts[k], ic)},
                     LAMBDA alts :
                        Try(re, n + 1, s, cap, ic, alts,
                            [k \in alts |-> pos + Len(re[n].alts[k])], FALSE))
           [] re[n].t = "rep" ->
                \* the counts, longest first when greedy and shortest first when lazy
                With(Run(s, pos, re[n]), LAMBDA r :
                    With({k \in re[n].min..r : Feasible(re, n + 1, s, pos + k, ic)},
                         LAMBDA counts :
                            Try(re, n + 1, s, cap, ic, counts,
                                [k \in counts |-> pos + k], re[n].greedy)))
Try(re, n, s, cap, ic, keys, at, greedy) ==
    IF keys = {} THEN NoMatch
    ELSE With(IF greedy THEN SetMax(keys) ELSE SetMin(keys), LAMBDA k :
            With(M(re, n, s, at[k], cap, ic), LAMBDA res :
                IF res.ok THEN res
                ELSE Try(re, n, s, cap, ic, keys \ {k}, at, greedy)))

\* the positions from i on where a match of re can start: those holding the
\* first character, in either case when ic, of the literal re starts with, if
\* it starts with one
FirstNode(re) == IF re[1].t = "open" THEN re[2] ELSE re[1]
FirstChars(re, ic) ==
    UNION {IF ic THEN {Lower(FirstNode(re).alts[k][1]), Upper(FirstNode(re).alts[k][1])}
           ELSE {FirstNode(re).alts[k][1]} : k \in 1..Len(FirstNode(re).alts)}
StartPositions(re, s, ic, i) ==
    IF FirstNode(re).t # "lit" THEN i..(Len(s) + 1)
    ELSE With(FirstChars(re, ic), LAMBDA first : {j \in i..Len(s) : s[j] \in first})

\* re.search(re, s) looking from position i on: the leftmost match
RECURSIVE SearchAt(_, _, _, _)
SearchAt(re, s, ic, starts) ==
    IF starts = {} THEN NoMatch
    ELSE With(SetMin(starts), LAMBDA j :
            With(M(re, 1, s, j, <<0, 0>>, ic), LAMBDA res :
                IF res.ok
                THEN [ok |-> TRUE, start |-> j, end |-> res.end, cap |-> res.cap]
                ELSE SearchAt(re, s, ic, starts \ {j})))
SearchFrom(re, s, ic, i) ==
    With(StartPositions(re, s, ic, i), LAMBDA starts : SearchAt(re, s, ic, starts))

re_search(re, s, ic) == With(s, LAMBDA t : SearchFrom(re, t, ic, 1))

\* m.group(1)
group1(s, m) == Slice(s, m.cap[1], m.cap[2] - 1)
\* m.group(0)
group0(s, m) == Slice(s, m.start, m.end - 1)

\* re.sub(re, '', s): every non-overlapping match removed, left to right
\* (every pattern of the source matches at least one character)
RECURSIVE SubFrom(_, _, _, _)
SubFrom(re, s, ic, pos) ==
    With(SearchFrom(re, s, ic, pos), LAMBDA m :
        IF ~m.ok THEN Slice(s, pos, Len(s))
        ELSE Slice(s, pos, m.start - 1) \o SubFrom(re, s, ic, m.end))
re_sub(re, s, ic) == With(s, LAMBDA t : SubFrom(re, t, ic, 1))

\* re.findall(re, s) for a pattern without groups: the matched texts
RECURSIVE FindAllFrom(_, _, _, _)
FindAllFrom(re, s, ic, pos) ==
    With(SearchFrom(re, s, ic, pos), LAMBDA m :
        IF ~m.ok THEN <<>>
        ELSE <<group0(s, m)>> \o FindAllFrom(re, s, ic, m.end))
re_findall(re, s, ic) == With(s, LAMBDA t : FindAllFrom(re, t, ic, 1))

\* re.split(re, s)[0]: the text before the first match, or all of s
re_split0(re, s, ic) ==
    With(s, LAMBDA t : With(SearchFrom(re, t, ic, 1), LAMBDA m :
        IF m.ok THEN Slice(t, 1, m.start - 1) ELSE t))

(***************************************************************************)
(* The patterns of src/ai_generator.py                                     *)
(***************************************************************************)
Fence == <<BT, BT, BT>>
LeadIns == <<"Here's", "This widget", "The widget", "The design", "This", "These">>
Explanations == <<"Here's", "This widget", "The widget", "The design">>

RE_DOCTYPE == <<Lit("<!DOCTYPE"), NotGtStar, Lit(">")>>
RE_HTML_OPEN == <<Lit("<html"), NotGtStar, Lit(">")>>
RE_HTML_CLOSE == <<Lit("</html>")>>
RE_HEAD == <<Lit("<head"), NotGtStar, Lit(">"), GroupOpen, LazyAny, GroupClose, Lit("</head>")>>
RE_STYLE == <<Lit("<style"), NotGtStar, Lit(">"), LazyAny, Lit("</style>")>>
RE_BODY_OPEN == <<Lit("<body"), NotGtStar, Lit(">")>>
RE_BODY_CLOSE == <<Lit("</body>")>>
RE_META == <<Lit("<meta"), NotGtStar, Lit(">")>>
RE_TITLE == <<Lit("<title"), NotGtStar, Lit(">"), LazyAny, Lit("</title>")>>

RE_MARKDOWN ==
    <<LitSeq(Fence \o Chars("html")), SpaceStar, GroupOpen, LazyAny, GroupClose,
      SpaceStar, LitSeq(Fence)>>
RE_SPLIT == <<Lit("\n\n"), SpaceStar, Alt(LeadIns)>>
RE_HTML_DOC ==
    <<Lit("<html"), NotGtStar, Lit(">"), GroupOpen, LazyAny, GroupClose, Lit("</html>")>>
RE_EXPLAIN == <<Alt(Explanations)>>
RE_CODE_BLOCK ==
    <<LitSeq(Fence), LowerStar, SpaceStar, GroupOpen, LazyAny, GroupClose,
      SpaceStar, LitSeq(Fence)>>
RE_HTML_CONTENT ==
    <<Lit("<"), NotGtPlus, Lit(">"), LazyAny, Lit("</"), NotGtPlus, Lit(">")>>
html_end_patterns ==
    <<  <<Alt(LeadIns)>>,
        <<Lit("\n\n"), Alt(<<"This", "These", "The", "Here">>)>>  >>

(***************************************************************************)
(* clean_html                                                              *)
(***************************************************************************)
\* the head section removed with everything in it, its style tags too
clean_head_drop_styles(html) ==
    With(html, LAMBDA h : With(re_search(RE_HEAD, h, TRUE), LAMBDA head_style_match :
        IF ~head_style_match.ok THEN h ELSE re_sub(RE_HEAD, h, TRUE)))

\* the head section removed, its style tags put after the rest
clean_head_styles_last(html) ==
    With(html, LAMBDA h : With(re_search(RE_HEAD, h, TRUE), LAMBDA head_style_match :
        IF ~head_style_match.ok THEN h
        ELSE With(re_findall(RE_STYLE, group1(h, head_style_match), TRUE),
                  LAMBDA style_tags :
                IF Len(style_tags) > 0
                THEN re_sub(RE_HEAD, h, TRUE) \o <<"\n">> \o join_nl(style_tags)
                ELSE re_sub(RE_HEAD, h, TRUE))))

\* the head section: its style tags go to the front, the section is removed
clean_head(html) ==
    With(html, LAMBDA h : With(re_search(RE_HEAD, h, TRUE), LAMBDA head_style_match :
        IF ~head_style_match.ok THEN h
        ELSE With(re_findall(RE_STYLE, group1(h, head_style_match), TRUE),
                  LAMBDA style_tags :
                IF Len(style_tags) > 0
                THEN join_nl(style_tags) \o <<"\n">> \o re_sub(RE_HEAD, h, TRUE)
                ELSE re_sub(RE_HEAD, h, TRUE))))

clean_html(html) ==
    LET h1 == re_sub(RE_DOCTYPE, html, TRUE)
        h2 == re_sub(RE_HTML_OPEN, h1, TRUE)
        h3 == re_sub(RE_HTML_CLOSE, h2, TRUE)
        h4 == clean_head(h3)
        h5 == re_sub(RE_BODY_OPEN, h4, TRUE)
        h6 == re_sub(RE_BODY_CLOSE, h5, TRUE)
        h7 == re_sub(RE_META, h6, TRUE)
        h8 == re_sub(RE_TITLE, h7, TRUE)
    IN  strip(h8)

(***************************************************************************)
(* The extraction cascade of generate_widget_html: each method gives       *)
(* [hit |-> whether it returns, html |-> what it returns]                  *)
(***************************************************************************)
Miss == [hit |-> FALSE, html |-> <<>>]
LT == <<"<">>
GT == <<">">>

\* Method 1 without the cut at a lead-in: the whole enclosed text is kept
method1_untruncated(response_text) ==
    With(re_search(RE_MARKDOWN, response_text, TRUE), LAMBDA markdown_match :
        IF ~markdown_match.ok THEN Miss
        ELSE [hit |-> TRUE,
              html |-> clean_html(strip(group1(response_text, markdown_match)))])

\* Method 1 taking group(0), the fences included, instead of group(1)
method1_whole_match(response_text) ==
    With(re_search(RE_MARKDOWN, response_text, TRUE), LAMBDA markdown_match :
        IF ~markdown_match.ok THEN Miss
        ELSE With(strip(group0(response_text, markdown_match)), LAMBDA widget_html :
             With(re_search(RE_SPLIT, widget_html, TRUE), LAMBDA split_match :
                [hit |-> TRUE,
                 html |-> clean_html(
                    IF split_match.ok
                    THEN strip(Slice(widget_html, 1, split_match.start - 1))
                    ELSE widget_html)])))

\* Method 1: ```html ... ```, cut at a blank line followed by a lead-in
method1(response_text) ==
    With(re_search(RE_MARKDOWN, response_text, TRUE), LAMBDA markdown_match :
        IF ~markdown_match.ok THEN Miss
        ELSE With(strip(group1(response_text, markdown_match)), LAMBDA widget_html :
             With(re_search(RE_SPLIT, widget_html, TRUE), LAMBDA split_match :
                [hit |-> TRUE,
                 html |-> clean_html(
                    IF split_match.ok
                    THEN strip(Slice(widget_html, 1, split_match.start - 1))
                    ELSE widget_html)])))

\* Method 2 cutting at the lead-ins of method 1, bare This and These included
method2_lead_ins(response_text) ==
    With(re_search(RE_HTML_DOC, response_text, TRUE), LAMBDA html_match :
        IF ~html_match.ok THEN Miss
        ELSE [hit |-> TRUE,
              html |-> clean_html(strip(re_split0(<<Alt(LeadIns)>>,
                          strip(group1(response_text, html_match)), TRUE)))])

\* Method 2: <html> ... </html>, cut at an explanation
method2(response_text) ==
    With(re_search(RE_HTML_DOC, response_text, TRUE), LAMBDA html_match :
        IF ~html_match.ok THEN Miss
        ELSE [hit |-> TRUE,
              html |-> clean_html(strip(re_split0(RE_EXPLAIN,
                          strip(group1(response_text, html_match)), TRUE)))])

\* Method 3 without the look at the content: any fenced text is returned
method3_unchecked(response_text) ==
    With(re_search(RE_CODE_BLOCK, response_text, FALSE), LAMBDA code_block_match :
        IF ~code_block_match.ok THEN Miss
        ELSE [hit |-> TRUE,
              html |-> clean_html(strip(re_split0(RE_EXPLAIN,
                          strip(group1(response_text, code_block_match)), TRUE)))])

\* Method 3 looking for an angle bracket only
method3_bracket_only(response_text) ==
    With(re_search(RE_CODE_BLOCK, response_text, FALSE), LAMBDA code_block_match :
        IF ~code_block_match.ok THEN Miss
        ELSE With(strip(re_split0(RE_EXPLAIN,
                      strip(group1(response_text, code_block_match)), TRUE)),
                  LAMBDA widget_html :
                IF Contains(widget_html, LT)
                THEN [hit |-> TRUE, html |-> clean_html(widget_html)]
                ELSE Miss))

\* Method 3: ``` ... ```, cut at an explanation, if it looks like HTML
method3(response_text) ==
    With(re_search(RE_CODE_BLOCK, response_text, FALSE), LAMBDA code_block_match :
        IF ~code_block_match.ok THEN Miss
        ELSE With(strip(re_split0(RE_EXPLAIN,
                      strip(group1(response_text, code_block_match)), TRUE)),
                  LAMBDA widget_html :
                IF /\ Contains(widget_html, LT)
                   /\ \/ Contains(lower(widget_html), Chars("div"))
                      \/ Contains(lower(widget_html), Chars("style"))
                THEN [hit |-> TRUE, html |-> clean_html(widget_html)]
                ELSE Miss))

\* Method 4: from an opening tag to a closing tag, cut after the last tag line
looks_like_tag_line(line) ==
    /\ Contains(line, LT)
    /\ Contains(line, GT)
    /\ ~startswith(strip(line), <<"-">>)

\* Method 4 with its result passed through clean_html like the others
method4_cleaned(response_text) ==
    With(re_search(RE_HTML_CONTENT, response_text, FALSE), LAMBDA html_content_match :
        IF ~html_content_match.ok THEN Miss
        ELSE With(split_nl(strip(group0(response_text, html_content_match))),
                  LAMBDA lines :
             With({i \in 1..Len(lines) : looks_like_tag_line(lines[i])},
                  LAMBDA tag_lines :
                [hit |-> TRUE,
                 html |-> clean_html(strip(join_nl(SubSeq(lines, 1,
                             IF tag_lines = {} THEN 1 ELSE SetMax(tag_lines)))))])))

method4(response_text) ==
    With(re_search(RE_HTML_CONTENT, response_text, FALSE), LAMBDA html_content_match :
        IF ~html_content_match.ok THEN Miss
        ELSE With(split_nl(strip(group0(response_text, html_content_match))),
                  LAMBDA lines :
             With({i \in 1..Len(lines) : looks_like_tag_line(lines[i])},
                  LAMBDA tag_lines :
                \* lines[:last_html_line + 1]
                [hit |-> TRUE,
                 html |-> strip(join_nl(SubSeq(lines, 1,
                             IF tag_lines = {} THEN 1 ELSE SetMax(tag_lines))))])))

\* Method 5: text that starts with '<', cut at the first end pattern that matches
RECURSIVE cut_at_end_pattern(_, _)
cut_at_end_pattern(widget_html, k) ==
    IF k > Len(html_end_patterns) THEN widget_html
    ELSE With(re_search(html_end_patterns[k], widget_html, TRUE), LAMBDA match :
            IF match.ok THEN strip(Slice(widget_html, 1, match.start - 1))
            ELSE cut_at_end_pattern(widget_html, k + 1))

\* Method 5 returning the truncated text as it is
method5_uncleaned(response_text) ==
    With(strip(response_text), LAMBDA stripped :
        IF ~startswith(stripped, LT) THEN Miss
        ELSE With(cut_at_end_pattern(stripped, 1), LAMBDA widget_html :
                IF Len(widget_html) > 0 /\ endswith(rstrip(widget_html), GT)
                THEN [hit |-> TRUE, html |-> widget_html]
                ELSE Miss))

method5(response_text) ==
    With(strip(response_text), LAMBDA stripped :
        IF ~startswith(stripped, LT) THEN Miss
        ELSE With(cut_at_end_pattern(stripped, 1), LAMBDA widget_html :
                IF Len(widget_html) > 0 /\ endswith(rstrip(widget_html), GT)
                THEN [hit |-> TRUE, html |-> clean_html(widget_html)]
                ELSE Miss))

\* Method 6: the lines from the first one with '<' on, while they look like HTML
html_tags == {Chars("<div"), Chars("</div"), Chars("<style"), Chars("</style"),
              Chars("<span"), Chars("<p"), Chars("<h")}

RECURSIVE collect_html_lines(_, _, _)
collect_html_lines(lines, i, in_html) ==
    IF i > Len(lines) THEN <<>>
    ELSE IF Contains(lines[i], LT)
         THEN <<lines[i]>> \o collect_html_lines(lines, i + 1, TRUE)
    ELSE IF in_html
         THEN IF \/ Contains(lines[i], GT)
                 \/ startswith(strip(lines[i]), Chars("<!--"))
                 \/ strip(lines[i]) = <<>>
              THEN <<lines[i]>> \o collect_html_lines(lines, i + 1, TRUE)
              ELSE IF \E tag \in html_tags : Contains(lower(lines[i]), tag)
                   THEN <<lines[i]>> \o collect_html_lines(lines, i + 1, TRUE)
                   ELSE <<>>
    ELSE collect_html_lines(lines, i + 1, FALSE)

\* Method 6 collecting only when a line has one of the known tags
method6_known_tags(response_text) ==
    IF ~(Contains(response_text, LT) /\ Contains(response_text, GT)) THEN Miss
    ELSE With(split_nl(response_text), LAMBDA lines :
         With(collect_html_lines(lines, 1, FALSE), LAMBDA html_lines :
            IF /\ Len(html_lines) > 0
               /\ \E tag \in html_tags : Contains(lower(response_text), tag)
            THEN [hit |-> TRUE, html |-> clean_html(strip(join_nl(html_lines)))]
            ELSE Miss))

method6(response_text) ==
    IF ~(Contains(response_text, LT) /\ Contains(response_text, GT)) THEN Miss
    ELSE With(split_nl(response_text), LAMBDA lines :
         With(collect_html_lines(lines, 1, FALSE), LAMBDA html_lines :
            IF Len(html_lines) > 0
            THEN [hit |-> TRUE, html |-> clean_html(strip(join_nl(html_lines)))]
            ELSE Miss))

\* Last resort: the text wrapped in a div
WrapperHead == Chars("\n        <div style=\"padding: 20px; font-family: system-ui;\">\n            ")
WrapperTail == Chars("\n        </div>\n        ")
last_resort(response_text) == WrapperHead \o response_text \o WrapperTail

\* first_hit(k, m, rest): method k's fragment if it returned, else the rest
first_hit(k, m, rest) ==
    With(m, LAMBDA x : IF x.hit THEN [method |-> k, html |-> x.html] ELSE rest)

\* the cascade with the document tags looked for before the html fence
extract_document_first(response_text) ==
    With(response_text, LAMBDA t :
        first_hit(2, method2(t),
        first_hit(1, method1(t),
        first_hit(3, method3(t),
        first_hit(4, method4(t),
        first_hit(5, method5(t),
        first_hit(6, method6(t),
                  [method |-> 7, html |-> last_resort(t)])))))))

\* the return statement reached, and the fragment returned
extract(response_text) ==
    With(response_text, LAMBDA t :
        first_hit(1, method1(t),
        first_hit(2, method2(t),
        first_hit(3, method3(t),
        first_hit(4, method4(t),
        first_hit(5, method5(t),
        first_hit(6, method6(t),
                  [method |-> 7, html |-> last_resort(t)])))))))

(***************************************************************************)
(* The fragments generate_widget_html returns without a completion         *)
(***************************************************************************)
ConfigErrorFragment ==
    Chars("\n        <div class=\"widget-error\" style=\"padding: 20px; color: #d32f2f; background: #ffebee; border-radius: 8px;\">\n            <h3>")
    \o <<WARN1, WARN2>>
    \o Chars(" Configuration Error</h3>\n            <p>ANTHROPIC_API_KEY is not set. Please add it to your .env file.</p>\n            <p>Get your API key from <a href=\"https://console.anthropic.com\" target=\"_blank\">console.anthropic.com</a></p>\n        </div>\n        ")

GenerationErrorFragment(e) ==
    Chars("\n        <div class=\"widget-error\" style=\"padding: 20px; color: #d32f2f; background: #ffebee; border-radius: 8px;\">\n            <h3>")
    \o <<WARN1, WARN2>>
    \o Chars(" Generation Error</h3>\n            <p>Failed to generate widget: ")
    \o e
    \o Chars("</p>\n            <p>Please check your API key and network connection.</p>\n        </div>\n        ")

(***************************************************************************)
(* The completion service, as call_anthropic_api sees it                   *)
(***************************************************************************)
models_to_try ==
    <<"claude-3-5-haiku-20241022", "claude-3-haiku-20240307",
      "claude-3-5-sonnet-20240620", "claude-3-sonnet-20240229">>
Candidates == 1..Len(models_to_try)

\* what messages.create does for one candidate: a message whose first content
\* block carries text, a message without content, or an exception with str(e) = msg
Message(text) == [kind |-> "message", text |-> text]
EmptyMessage == [kind |-> "empty"]
Raises(msg) == [kind |-> "error", msg |-> msg]

\* the test the fallback loop applies to str(e)
is_not_found(msg) ==
    \/ Contains(msg, Chars("404"))
    \/ Contains(msg, Chars("not_found"))
    \/ Contains(msg, Chars("not_found_error"))

ExhaustedMsg(last_error) ==
    Chars("None of the available models worked. Last error: ") \o last_error
IndexErrorMsg == Chars("list index out of range")

\* the style-preservation test on render_prompt
has_style_preservation(render_prompt) ==
    \/ Contains(render_prompt, Chars("CRITICAL STYLE PRESERVATION"))
    \/ Contains(render_prompt, Chars("CURRENT WIDGET STYLES"))

\* which of the four prompt templates is filled in
prompt_template(has_data, render_prompt, is_user_prompt) ==
    IF is_user_prompt \/ ~has_data
    THEN IF has_style_preservation(render_prompt) THEN "user_preserve" ELSE "user_normal"
    ELSE IF has_style_preservation(render_prompt) THEN "app_preserve" ELSE "app_normal"

(***************************************************************************)
(* Bounds and the inputs drawn from them                                   *)
(***************************************************************************)
NumRequests == 6
MaxSegs == 4

Requests == 1..NumRequests

MAX_WORKERS == 5

\* completion texts are concatenations of at most MaxSegs of these pieces
Vocabulary ==
    { Fence \o Chars("html\n"),
      Fence,
      Chars("<div>X</div>"),
      Chars("\n\n here's Y"),
      Chars("<html><p>Z</p></html>"),
      Chars("This"),
      Chars("<br>") }

RECURSIVE Texts(_)
Texts(n) ==
    IF n = 0 THEN {<<>>}
    ELSE Texts(n - 1) \cup {t \o v : t \in Texts(n - 1), v \in Vocabulary}
RawTexts == Texts(MaxSegs)

\* whole-document completions: a doctype, <html>, a head of at most MaxPieces
\* head pieces with a style block among them, a body of at most MaxPieces
\* body pieces
MaxPieces == 2
Doctypes == {Chars("<!DOCTYPE html>"), Chars("<!doctype html>\n")}
HeadPieces ==
    {Chars("<style>.a{}</style>"), Chars("<style>.b{}</style>"), Chars("<title>T</title>")}
BodyPieces ==
    {Chars("<div>hi</div>"), Chars("<p>This widget</p>"), Chars("<header>H</header>")}
\* texts handed to clean_html: concatenations of at most MaxSegs of these pieces
CleanPieces ==
    {Chars("<head>"), Chars("</HEAD>"), Chars("<style>.a{}</style>"),
     Chars("<style>.b{}</style>"), Chars("<div>hi</div>"), Chars("<body>")}
\* completions that are bare markup: concatenations of at most MaxSegs of
\* these pieces
FragmentPieces ==
    {Chars("<div>A</div>"), Chars("<p>B</p>"), <<"\n">>, Chars("<!DOCTYPE html>"),
     Chars("<body>"), Chars("<br>"), Chars("This")}
RECURSIVE Concats(_, _)
Concats(pieces, n) ==
    IF n = 0 THEN {<<>>}
    ELSE Concats(pieces, n - 1) \cup {t \o v : t \in Concats(pieces, n - 1), v \in pieces}
Document(doctype, head, body) ==
    doctype \o Chars("<html><head>") \o head \o Chars("</head><body>") \o body
            \o Chars("</body></html>")
CleanTexts == Concats(CleanPieces, MaxSegs)
\* completions with document tags and phrases of commentary: concatenations
\* of at most MaxSegs of these pieces
MarkedPieces ==
    {Chars("<html>"), Chars("</html>"), Chars("<p>A</p>"), Chars("This"),
     Chars("These"), Chars("Here's"), Chars("the design")}
MarkedTexts == Concats(MarkedPieces, MaxSegs)
FragmentTexts == Concats(FragmentPieces, MaxSegs)
DocTexts ==
    {Document(d, h, b) : d \in Doctypes,
                         h \in {x \in Concats(HeadPieces, MaxPieces) :
                                   Contains(x, Chars("<style"))},
                         b \in Concats(BodyPieces, MaxPieces)}

TextA == Chars("<div>A</div>")
TextB == Fence \o Chars("html\n<p>B</p>\n") \o Fence
Err404 == Chars("Error code: 404")
ErrNotFound == Chars("not_found_error: model")
Err529 == Chars("Error code: 529 overloaded")

Outcomes ==
    {Message(TextA), Message(TextB), EmptyMessage,
     Raises(Err404), Raises(ErrNotFound), Raises(Err529)}
Scripts == [Candidates -> Outcomes]

RenderPrompts ==
    {Chars("Show weather"), Chars("CRITICAL STYLE PRESERVATION: keep"),
     Chars("CURRENT WIDGET STYLES: .a{}")}
RequestInputs ==
    [has_data : BOOLEAN, render_prompt : RenderPrompts, is_user_prompt : BOOLEAN]

\* the provider's behaviour for the concurrent requests, request by request
PoolScripts ==
    << <<Message(TextA), Message(TextB), Message(TextB), Message(TextB)>>,
       <<Raises(Err404), Message(TextB), Message(TextA), Message(TextA)>>,
       <<Raises(Err529), Message(TextA), Message(TextA), Message(TextA)>>,
       <<Message(TextA), Message(TextA), Message(TextA), Message(TextA)>>,
       <<EmptyMessage, Message(TextA), Message(TextA), Message(TextA)>>,
       <<Raises(Err404), Raises(ErrNotFound), Raises(Err404), Raises(ErrNotFound)>> >>
PoolInput ==
    [has_data |-> TRUE, render_prompt |-> Chars("Show weather"), is_user_prompt |-> FALSE]

(***************************************************************************)
(* The HTTP API: its requests and what they carry                          *)
(***************************************************************************)
NumHttpRequests == 3
HttpRequests == 1..NumHttpRequests

\* settings.registration_token
REGISTRATION_TOKEN == "demo_registration_token_123"
RegistrationTokens == {REGISTRATION_TOKEN, "wrong_token"}

\* the n-th document inserted has ObjectId n, and the integration token
\* secrets.token_urlsafe gives the app with ObjectId n is token n; token 0 is
\* one that is never issued
IntegrationTokens == 0..NumHttpRequests
\* the app_id of a path: the string of an ObjectId, or a string that is not one
PathAppIds ==
    {[valid |-> TRUE, oid |-> n] : n \in 1..NumHttpRequests}
        \cup {[valid |-> FALSE, oid |-> 0]}
\* the fragments generate_widget_html returns to a handler: a widget with a
\* style block, or the error card of a failed completion
Fragments ==
    {Chars("<style>.a{}</style><div>v1</div>"), GenerationErrorFragment(Err529)}
\* generate_widget_html as a handler sees it: it returns a fragment; its
\* except clause turns every exception into the error card, so none escapes
GenerationOutcomesRaising ==
    {[raised |-> FALSE, html |-> f] : f \in Fragments}
        \cup {[raised |-> TRUE, html |-> <<>>]}
GenerationOutcomes == {[raised |-> FALSE, html |-> f] : f \in Fragments}
\* what a POST /share-data carries besides the token
Payloads ==
    {[data |-> "temp: 20", render_prompt |-> Chars("Show weather")],
     [data |-> "temp: 25", render_prompt |-> Chars("Show sales")]}
\* the prompt of a create or an edit of a user widget
Prompts == {Chars("Show a calendar")}
\* the widgets stored before the first request of a run on stored widgets
StoredAppWidget ==
    [_id |-> 2, app_id |-> 1, user_created |-> FALSE, data |-> "temp: 20",
     render_prompt |-> Chars("Show weather"),
     generated_html |-> Chars("<style>.a{}</style><div>v1</div>")]
StoredUserWidget ==
    [_id |-> 3, app_id |-> 0, user_created |-> TRUE, data |-> "{}",
     render_prompt |-> Chars("Show a clock"),
     generated_html |-> Chars("<style>.a{}</style><div>v1</div>")]

\* the style-preservation text a refresh appends to the stored prompt
RE_STYLE_CONTENT ==
    <<Lit("<style"), NotGtStar, Lit(">"), GroupOpen, LazyAny, GroupClose,
      Lit("</style>")>>
RECURSIVE style_tags_from(_, _)
style_tags_from(current_html, pos) ==
    With(SearchFrom(RE_STYLE_CONTENT, current_html, TRUE, pos), LAMBDA m :
        IF ~m.ok THEN <<>>
        ELSE <<group1(current_html, m)>> \o style_tags_from(current_html, m.end))
style_tags(current_html) == style_tags_from(current_html, 1)
RECURSIVE style_lines(_, _)
style_lines(tags, i) ==
    IF i > Len(tags) THEN <<>>
    ELSE strip(tags[i]) \o <<"\n">> \o style_lines(tags, i + 1)
style_instruction(current_html) ==
    Chars("\n\nCRITICAL STYLE PRESERVATION REQUIREMENTS:\n")
    \o Chars("You MUST preserve the EXACT visual appearance and styling of the current widget.\n")
    \o Chars("- Keep the SAME colors, fonts, spacing, borders, shadows, and all visual properties\n")
    \o Chars("- Use the SAME CSS classes and styling patterns\n")
    \o Chars("- Maintain the SAME layout structure and component arrangement\n")
    \o Chars("- Preserve the SAME design aesthetic and visual hierarchy\n")
    \o Chars("- DO NOT change colors, sizes, or styling unless absolutely necessary\n")
    \o (IF style_tags(current_html) = <<>> THEN <<>>
        ELSE Chars("\nCURRENT WIDGET STYLES (preserve these):\n")
             \o Fence \o Chars("css\n")
             \o style_lines(style_tags(current_html), 1)
             \o Fence \o Chars("\n")
             \o Chars("\nIMPORTANT: Use these exact styles or very similar ones. Match the color scheme, typography, spacing, and visual design.\n"))

\* a request slot nothing has arrived in
Idle ==
    [pc |-> "idle", kind |-> "none", registration_token |-> "",
     integration_token |-> 0, app_id |-> [valid |-> FALSE, oid |-> 0],
     widget_id |-> [valid |-> FALSE, oid |-> 0],
     data |-> "", render_prompt |-> <<>>, prompt |-> <<>>,
     app |-> 0, matched |-> FALSE, widget_html |-> <<>>, status |-> 0, detail |-> "",
     inserted |-> 0, generations |-> 0, writes |-> 0]
\* the response that ends a request; the handler's locals go with it
Respond(h, status, detail) ==
    [h EXCEPT !.pc = "done", !.status = status, !.detail = detail,
              !.data = "", !.render_prompt = <<>>, !.prompt = <<>>,
              !.matched = FALSE, !.widget_html = <<>>]

(***************************************************************************)
(* State                                                                   *)
(***************************************************************************)
VARIABLES
    apps,               \* apps_collection: documents [_id, integration_token]
    widgets,            \* widgets_collection: documents [_id, app_id (0: None),
                        \*   user_created, data, render_prompt, generated_html]
    next_oid,           \* the ObjectId the next inserted document gets
    http,               \* http[q]: HTTP request q: its endpoint, what it carries,
                        \*   where its handler is, its locals, its response, and
                        \*   what it has done so far (the app document it
                        \*   inserted, the generations it started, its writes to
                        \*   widgets_collection)
    ANTHROPIC_API_KEY,  \* the configured credential ("" when unset)
    request,            \* request[r]: the arguments of call r of generate_widget_html
    provider,           \* provider[r][c]: what the service does when r calls candidate c
    pc,                 \* where call r is: absent, start, queued, running, returned,
                        \*   raised, done
    prompt,             \* the prompt template call r filled in
    work_queue,         \* the executor's queue: dispatched calls no worker has taken
    model_idx,          \* the candidate the fallback loop of r is at
    calls,              \* the candidates r has called, in order
    last_error,         \* last_error of the fallback loop
    failure,            \* str(e) of the exception call_anthropic_api raised
    response_text,      \* what call_anthropic_api returned
    result,             \* the fragment generate_widget_html returned
    branch              \* the return statement it returned from

apiVars == <<apps, widgets, next_oid, http>>
vars == <<ANTHROPIC_API_KEY, request, provider, pc, prompt, work_queue, model_idx,
          calls, last_error, failure, response_text, result, branch,
          apps, widgets, next_oid, http>>

\* no HTTP request has arrived and the collections are empty
NoHttp ==
    /\ apps = {}
    /\ widgets = {}
    /\ next_oid = 1
    /\ http = [q \in HttpRequests |-> Idle]

MethodName ==
    <<"method1", "method2", "method3", "method4", "method5", "method6", "last_resort">>

running == {r \in Requests : pc[r] = "running"}

InitCommon ==
    /\ prompt = [r \in Requests |-> "none"]
    /\ work_queue = <<>>
    /\ model_idx = [r \in Requests |-> 1]
    /\ calls = [r \in Requests |-> <<>>]
    /\ last_error = [r \in Requests |-> <<>>]
    /\ failure = [r \in Requests |-> <<>>]
    /\ response_text = [r \in Requests |-> <<>>]
    /\ result = [r \in Requests |-> <<>>]
    /\ branch = [r \in Requests |-> "none"]
    /\ NoHttp

\* one call of generate_widget_html, any arguments, any provider behaviour
Init ==
    /\ ANTHROPIC_API_KEY \in {"", "sk-ant-test"}
    /\ \E inp \in RequestInputs : request = [r \in Requests |-> inp]
    /\ \E sc \in Scripts : provider = [r \in Requests |-> sc]
    /\ pc = [r \in Requests |-> IF r = 1 THEN "start" ELSE "absent"]
    /\ InitCommon

\* NumRequests concurrent calls
InitPool ==
    /\ ANTHROPIC_API_KEY \in {"", "sk-ant-test"}
    /\ request = [r \in Requests |-> PoolInput]
    /\ provider = [r \in Requests |-> PoolScripts[((r - 1) % Len(PoolScripts)) + 1]]
    /\ pc = [r \in Requests |-> "start"]
    /\ InitCommon

\* the service with no request yet and empty collections
InitApi ==
    /\ ANTHROPIC_API_KEY = "sk-ant-test"
    /\ request = [r \in Requests |-> PoolInput]
    /\ provider = [r \in Requests |-> PoolScripts[1]]
    /\ pc = [r \in Requests |-> "absent"]
    /\ InitCommon

\* the service with app 1 registered (its token is 1) and no widget stored
InitRegistered ==
    /\ ANTHROPIC_API_KEY = "sk-ant-test"
    /\ request = [r \in Requests |-> PoolInput]
    /\ provider = [r \in Requests |-> PoolScripts[1]]
    /\ pc = [r \in Requests |-> "absent"]
    /\ prompt = [r \in Requests |-> "none"]
    /\ work_queue = <<>>
    /\ model_idx = [r \in Requests |-> 1]
    /\ calls = [r \in Requests |-> <<>>]
    /\ last_error = [r \in Requests |-> <<>>]
    /\ failure = [r \in Requests |-> <<>>]
    /\ response_text = [r \in Requests |-> <<>>]
    /\ result = [r \in Requests |-> <<>>]
    /\ branch = [r \in Requests |-> "none"]
    /\ apps = {[_id |-> 1, integration_token |-> 1]}
    /\ widgets = {}
    /\ next_oid = 2
    /\ http = [q \in HttpRequests |-> Idle]

\* the service with app 1 registered, its widget stored by a share-data, and
\* a user widget stored by a create
InitStored ==
    /\ ANTHROPIC_API_KEY = "sk-ant-test"
    /\ request = [r \in Requests |-> PoolInput]
    /\ provider = [r \in Requests |-> PoolScripts[1]]
    /\ pc = [r \in Requests |-> "absent"]
    /\ prompt = [r \in Requests |-> "none"]
    /\ work_queue = <<>>
    /\ model_idx = [r \in Requests |-> 1]
    /\ calls = [r \in Requests |-> <<>>]
    /\ last_error = [r \in Requests |-> <<>>]
    /\ failure = [r \in Requests |-> <<>>]
    /\ response_text = [r \in Requests |-> <<>>]
    /\ result = [r \in Requests |-> <<>>]
    /\ branch = [r \in Requests |-> "none"]
    /\ apps = {[_id |-> 1, integration_token |-> 1]}
    /\ widgets = {StoredAppWidget, StoredUserWidget}
    /\ next_oid = 4
    /\ http = [q \in HttpRequests |-> Idle]

\* one call whose completion has just come back, for every completion text
InitExtract ==
    /\ ANTHROPIC_API_KEY = "sk-ant-test"
    /\ request = [r \in Requests |-> PoolInput]
    /\ \E raw \in RawTexts :
          /\ provider = [r \in Requests |-> [c \in Candidates |-> Message(raw)]]
          /\ response_text = [r \in Requests |-> IF r = 1 THEN raw ELSE <<>>]
    /\ pc = [r \in Requests |-> IF r = 1 THEN "returned" ELSE "absent"]
    /\ prompt = [r \in Requests |-> IF r = 1 THEN "app_normal" ELSE "none"]
    /\ work_queue = <<>>
    /\ model_idx = [r \in Requests |-> 1]
    /\ calls = [r \in Requests |-> IF r = 1 THEN <<1>> ELSE <<>>]
    /\ last_error = [r \in Requests |-> <<>>]
    /\ failure = [r \in Requests |-> <<>>]
    /\ result = [r \in Requests |-> <<>>]
    /\ branch = [r \in Requests |-> "none"]
    /\ NoHttp

\* one call whose completion has just come back, for every whole document
InitDocument ==
    /\ ANTHROPIC_API_KEY = "sk-ant-test"
    /\ request = [r \in Requests |-> PoolInput]
    /\ \E raw \in DocTexts :
          /\ provider = [r \in Requests |-> [c \in Candidates |-> Message(raw)]]
          /\ response_text = [r \in Requests |-> IF r = 1 THEN raw ELSE <<>>]
    /\ pc = [r \in Requests |-> IF r = 1 THEN "returned" ELSE "absent"]
    /\ prompt = [r \in Requests |-> IF r = 1 THEN "app_normal" ELSE "none"]
    /\ work_queue = <<>>
    /\ model_idx = [r \in Requests |-> 1]
    /\ calls = [r \in Requests |-> IF r = 1 THEN <<1>> ELSE <<>>]
    /\ last_error = [r \in Requests |-> <<>>]
    /\ failure = [r \in Requests |-> <<>>]
    /\ result = [r \in Requests |-> <<>>]
    /\ branch = [r \in Requests |-> "none"]
    /\ NoHttp

\* one call whose completion has just come back, for every bare fragment
InitFragment ==
    /\ ANTHROPIC_API_KEY = "sk-ant-test"
    /\ request = [r \in Requests |-> PoolInput]
    /\ \E raw \in FragmentTexts :
          /\ provider = [r \in Requests |-> [c \in Candidates |-> Message(raw)]]
          /\ response_text = [r \in Requests |-> IF r = 1 THEN raw ELSE <<>>]
    /\ pc = [r \in Requests |-> IF r = 1 THEN "returned" ELSE "absent"]
    /\ prompt = [r \in Requests |-> IF r = 1 THEN "app_normal" ELSE "none"]
    /\ work_queue = <<>>
    /\ model_idx = [r \in Requests |-> 1]
    /\ calls = [r \in Requests |-> IF r = 1 THEN <<1>> ELSE <<>>]
    /\ last_error = [r \in Requests |-> <<>>]
    /\ failure = [r \in Requests |-> <<>>]
    /\ result = [r \in Requests |-> <<>>]
    /\ branch = [r \in Requests |-> "none"]
    /\ NoHttp

\* one call whose completion has just come back, for every text with
\* document tags and phrases of commentary
InitMarked ==
    /\ ANTHROPIC_API_KEY = "sk-ant-test"
    /\ request = [r \in Requests |-> PoolInput]
    /\ \E raw \in MarkedTexts :
          /\ provider = [r \in Requests |-> [c \in Candidates |-> Message(raw)]]
          /\ response_text = [r \in Requests |-> IF r = 1 THEN raw ELSE <<>>]
    /\ pc = [r \in Requests |-> IF r = 1 THEN "returned" ELSE "absent"]
    /\ prompt = [r \in Requests |-> IF r = 1 THEN "app_normal" ELSE "none"]
    /\ work_queue = <<>>
    /\ model_idx = [r \in Requests |-> 1]
    /\ calls = [r \in Requests |-> IF r = 1 THEN <<1>> ELSE <<>>]
    /\ last_error = [r \in Requests |-> <<>>]
    /\ failure = [r \in Requests |-> <<>>]
    /\ result = [r \in Requests |-> <<>>]
    /\ branch = [r \in Requests |-> "none"]
    /\ NoHttp

\* one call in which a method is about to return clean_html(widget_html), for
\* every widget_html (response_text[1] holds it)
InitClean ==
    /\ ANTHROPIC_API_KEY = "sk-ant-test"
    /\ request = [r \in Requests |-> PoolInput]
    /\ \E html \in CleanTexts :
          /\ provider = [r \in Requests |-> [c \in Candidates |-> Message(html)]]
          /\ response_text = [r \in Requests |-> IF r = 1 THEN html ELSE <<>>]
    /\ pc = [r \in Requests |-> IF r = 1 THEN "cleaning" ELSE "absent"]
    /\ prompt = [r \in Requests |-> IF r = 1 THEN "app_normal" ELSE "none"]
    /\ work_queue = <<>>
    /\ model_idx = [r \in Requests |-> 1]
    /\ calls = [r \in Requests |-> IF r = 1 THEN <<1>> ELSE <<>>]
    /\ last_error = [r \in Requests |-> <<>>]
    /\ failure = [r \in Requests |-> <<>>]
    /\ result = [r \in Requests |-> <<>>]
    /\ branch = [r \in Requests |-> "none"]
    /\ NoHttp

(***************************************************************************)
(* Faulty variants of the steps below, which the properties must tell from *)
(* the steps themselves                                                    *)
(***************************************************************************)
\* the registration token is not compared with the configured one
VerifyRegistrationTokenUnchecked(q) ==
    /\ http[q].pc = "verify_registration_token"
    /\ http' = [http EXCEPT ![q].pc = "save_app"]
    /\ UNCHANGED <<apps, widgets, next_oid>>
    /\ UNCHANGED <<ANTHROPIC_API_KEY, request, provider, pc, prompt, work_queue,
                   model_idx, calls, last_error, failure, response_text, result,
                   branch>>

\* share_data goes on whether or not an app has the integration token
VerifyIntegrationTokenUnchecked(q) ==
    /\ http[q].pc = "verify_integration_token"
    /\ \E found \in {{a \in apps : a.integration_token = http[q].integration_token}} :
          http' = [http EXCEPT ![q].pc = "generate_widget_html",
                               ![q].app = IF found = {} THEN 0
                                          ELSE (CHOOSE a \in found : TRUE)._id]
    /\ UNCHANGED <<apps, widgets, next_oid>>
    /\ UNCHANGED <<ANTHROPIC_API_KEY, request, provider, pc, prompt, work_queue,
                   model_idx, calls, last_error, failure, response_text, result,
                   branch>>

\* the executor is handed the call whether or not there is a credential
DispatchUnchecked(r) ==
    /\ pc[r] = "start"
    /\ \A q \in Requests : q < r => pc[q] # "start"
    /\ prompt' = [prompt EXCEPT ![r] =
                    prompt_template(request[r].has_data, request[r].render_prompt,
                                    request[r].is_user_prompt)]
    /\ work_queue' = Append(work_queue, r)
    /\ pc' = [pc EXCEPT ![r] = "queued"]
    /\ UNCHANGED apiVars
    /\ UNCHANGED <<ANTHROPIC_API_KEY, request, provider, model_idx, calls,
                   last_error, failure, response_text, result, branch>>

\* a call is started for the oldest queued call whether or not a worker is free
WorkerTakeUnbounded(r) ==
    /\ work_queue # <<>>
    /\ r = Head(work_queue)
    /\ work_queue' = Tail(work_queue)
    /\ pc' = [pc EXCEPT ![r] = "running"]
    /\ model_idx' = [model_idx EXCEPT ![r] = 1]
    /\ UNCHANGED apiVars
    /\ UNCHANGED <<ANTHROPIC_API_KEY, request, provider, prompt, calls,
                   last_error, failure, response_text, result, branch>>

\* a worker takes one call and no other after it: the pool serves its first
\* MAX_WORKERS calls only
WorkerTakeOnce(r) ==
    /\ work_queue # <<>>
    /\ r = Head(work_queue)
    /\ Cardinality({q \in Requests : pc[q] \notin {"absent", "start", "queued"}})
          < MAX_WORKERS
    /\ work_queue' = Tail(work_queue)
    /\ pc' = [pc EXCEPT ![r] = "running"]
    /\ model_idx' = [model_idx EXCEPT ![r] = 1]
    /\ UNCHANGED apiVars
    /\ UNCHANGED <<ANTHROPIC_API_KEY, request, provider, prompt, calls,
                   last_error, failure, response_text, result, branch>>

\* the loop does not break on a message: the later candidates are called too
CallSucceedsWithoutBreak(r) ==
    /\ pc[r] = "running"
    /\ provider[r][model_idx[r]].kind = "message"
    /\ calls' = [calls EXCEPT ![r] = Append(@, model_idx[r])]
    /\ response_text' = [response_text EXCEPT ![r] = provider[r][model_idx[r]].text]
    /\ IF model_idx[r] < Len(models_to_try)
       THEN /\ model_idx' = [model_idx EXCEPT ![r] = @ + 1]
            /\ UNCHANGED pc
       ELSE /\ pc' = [pc EXCEPT ![r] = "returned"]
            /\ UNCHANGED model_idx
    /\ UNCHANGED apiVars
    /\ UNCHANGED <<ANTHROPIC_API_KEY, request, provider, prompt, work_queue,
                   last_error, failure, result, branch>>

\* after the last candidate the loop starts over with the first one
CallNotFoundStartsOver(r) ==
    /\ pc[r] = "running"
    /\ provider[r][model_idx[r]].kind = "error"
    /\ is_not_found(provider[r][model_idx[r]].msg)
    /\ Len(calls[r]) < 2 * Len(models_to_try)
    /\ calls' = [calls EXCEPT ![r] = Append(@, model_idx[r])]
    /\ last_error' = [last_error EXCEPT ![r] = provider[r][model_idx[r]].msg]
    /\ model_idx' = [model_idx EXCEPT ![r] = (@ % Len(models_to_try)) + 1]
    /\ UNCHANGED apiVars
    /\ UNCHANGED <<ANTHROPIC_API_KEY, request, provider, prompt, work_queue,
                   pc, failure, response_text, result, branch>>

\* any error sends the loop on to the next candidate
CallFailsAndContinues(r) ==
    /\ pc[r] = "running"
    /\ provider[r][model_idx[r]].kind = "error"
    /\ ~is_not_found(provider[r][model_idx[r]].msg)
    /\ calls' = [calls EXCEPT ![r] = Append(@, model_idx[r])]
    /\ last_error' = [last_error EXCEPT ![r] = provider[r][model_idx[r]].msg]
    /\ IF model_idx[r] < Len(models_to_try)
       THEN /\ model_idx' = [model_idx EXCEPT ![r] = @ + 1]
            /\ UNCHANGED <<pc, failure>>
       ELSE /\ failure' = [failure EXCEPT ![r] =
                             ExhaustedMsg(provider[r][model_idx[r]].msg)]
            /\ pc' = [pc EXCEPT ![r] = "raised"]
            /\ UNCHANGED model_idx
    /\ UNCHANGED apiVars
    /\ UNCHANGED <<ANTHROPIC_API_KEY, request, provider, prompt, work_queue,
                   response_text, result, branch>>

\* there is no last resort: a text that no method takes raises
ExtractOrRaise(r) ==
    /\ pc[r] = "returned"
    /\ \E x \in {extract(response_text[r])} :
          IF x.method = 7
          THEN /\ failure' = [failure EXCEPT ![r] = Chars("no HTML found")]
               /\ pc' = [pc EXCEPT ![r] = "raised"]
               /\ UNCHANGED <<result, branch>>
          ELSE /\ result' = [result EXCEPT ![r] = x.html]
               /\ branch' = [branch EXCEPT ![r] = MethodName[x.method]]
               /\ pc' = [pc EXCEPT ![r] = "done"]
               /\ UNCHANGED failure
    /\ UNCHANGED apiVars
    /\ UNCHANGED <<ANTHROPIC_API_KEY, request, provider, prompt, work_queue,
                   model_idx, calls, last_error, response_text>>

\* the fragment of a call that finished earlier, if there is one, is returned again
ExtractWithCarriedState(r) ==
    /\ pc[r] = "returned"
    /\ \E x \in {extract(response_text[r])} :
       \E q \in Requests :
          /\ \/ q = r
             \/ pc[q] = "done" /\ branch[q] \in {MethodName[k] : k \in 1..7}
          /\ result' = [result EXCEPT ![r] = IF q = r THEN x.html ELSE result[q]]
          /\ branch' = [branch EXCEPT ![r] = MethodName[x.method]]
    /\ pc' = [pc EXCEPT ![r] = "done"]
    /\ UNCHANGED apiVars
    /\ UNCHANGED <<ANTHROPIC_API_KEY, request, provider, prompt, work_queue,
                   model_idx, calls, last_error, failure, response_text>>

\* the exception is not caught: it reaches the caller
EscapeToCaller(r) ==
    /\ pc[r] = "raised"
    /\ pc' = [pc EXCEPT ![r] = "escaped"]
    /\ UNCHANGED apiVars
    /\ UNCHANGED <<ANTHROPIC_API_KEY, request, provider, prompt, work_queue,
                   model_idx, calls, last_error, failure, response_text, result,
                   branch>>

(***************************************************************************)
(* generate_widget_html up to its await                                    *)
(***************************************************************************)
\* no credential: the configuration error is returned at once
ReturnConfigError(r) ==
    /\ pc[r] = "start"
    /\ ANTHROPIC_API_KEY = ""
    /\ result' = [result EXCEPT ![r] = ConfigErrorFragment]
    /\ branch' = [branch EXCEPT ![r] = "config_error"]
    /\ pc' = [pc EXCEPT ![r] = "done"]
    /\ UNCHANGED apiVars
    /\ UNCHANGED <<ANTHROPIC_API_KEY, request, provider, prompt, work_queue,
                   model_idx, calls, last_error, failure, response_text>>

\* the prompt is built and call_anthropic_api is handed to the executor;
\* calls are numbered in the order in which they get here
Dispatch(r) ==
    /\ pc[r] = "start"
    /\ ANTHROPIC_API_KEY # ""
    /\ \A q \in Requests : q < r => pc[q] # "start"
    /\ prompt' = [prompt EXCEPT ![r] =
                    prompt_template(request[r].has_data, request[r].render_prompt,
                                    request[r].is_user_prompt)]
    /\ work_queue' = Append(work_queue, r)
    /\ pc' = [pc EXCEPT ![r] = "queued"]
    /\ UNCHANGED apiVars
    /\ UNCHANGED <<ANTHROPIC_API_KEY, request, provider, model_idx, calls,
                   last_error, failure, response_text, result, branch>>

(***************************************************************************)
(* The executor and call_anthropic_api                                     *)
(***************************************************************************)
\* a worker of the pool takes the oldest queued call, if a worker is free
WorkerTake(r) ==
    /\ work_queue # <<>>
    /\ r = Head(work_queue)
    /\ Cardinality(running) < MAX_WORKERS
    /\ work_queue' = Tail(work_queue)
    /\ pc' = [pc EXCEPT ![r] = "running"]
    /\ model_idx' = [model_idx EXCEPT ![r] = 1]
    /\ UNCHANGED apiVars
    /\ UNCHANGED <<ANTHROPIC_API_KEY, request, provider, prompt, calls,
                   last_error, failure, response_text, result, branch>>

\* the candidate answers with a message: the loop breaks and its text is returned
CallSucceeds(r) ==
    /\ pc[r] = "running"
    /\ provider[r][model_idx[r]].kind = "message"
    /\ calls' = [calls EXCEPT ![r] = Append(@, model_idx[r])]
    /\ response_text' = [response_text EXCEPT ![r] = provider[r][model_idx[r]].text]
    /\ pc' = [pc EXCEPT ![r] = "returned"]
    /\ UNCHANGED apiVars
    /\ UNCHANGED <<ANTHROPIC_API_KEY, request, provider, prompt, work_queue,
                   model_idx, last_error, failure, result, branch>>

\* the candidate answers with a message without content: content[0] raises
CallMalformed(r) ==
    /\ pc[r] = "running"
    /\ provider[r][model_idx[r]].kind = "empty"
    /\ calls' = [calls EXCEPT ![r] = Append(@, model_idx[r])]
    /\ failure' = [failure EXCEPT ![r] = IndexErrorMsg]
    /\ pc' = [pc EXCEPT ![r] = "raised"]
    /\ UNCHANGED apiVars
    /\ UNCHANGED <<ANTHROPIC_API_KEY, request, provider, prompt, work_queue,
                   model_idx, last_error, response_text, result, branch>>

\* the candidate raises a not-found error: on to the next one, or, after the
\* last one, the exhaustion error
CallNotFound(r) ==
    /\ pc[r] = "running"
    /\ provider[r][model_idx[r]].kind = "error"
    /\ is_not_found(provider[r][model_idx[r]].msg)
    /\ calls' = [calls EXCEPT ![r] = Append(@, model_idx[r])]
    /\ last_error' = [last_error EXCEPT ![r] = provider[r][model_idx[r]].msg]
    /\ IF model_idx[r] < Len(models_to_try)
       THEN /\ model_idx' = [model_idx EXCEPT ![r] = @ + 1]
            /\ UNCHANGED <<pc, failure>>
       ELSE /\ failure' = [failure EXCEPT ![r] =
                             ExhaustedMsg(provider[r][model_idx[r]].msg)]
            /\ pc' = [pc EXCEPT ![r] = "raised"]
            /\ UNCHANGED model_idx
    /\ UNCHANGED apiVars
    /\ UNCHANGED <<ANTHROPIC_API_KEY, request, provider, prompt, work_queue,
                   response_text, result, branch>>

\* the candidate raises any other error: it is re-raised
CallFails(r) ==
    /\ pc[r] = "running"
    /\ provider[r][model_idx[r]].kind = "error"
    /\ ~is_not_found(provider[r][model_idx[r]].msg)
    /\ calls' = [calls EXCEPT ![r] = Append(@, model_idx[r])]
    /\ last_error' = [last_error EXCEPT ![r] = provider[r][model_idx[r]].msg]
    /\ failure' = [failure EXCEPT ![r] = provider[r][model_idx[r]].msg]
    /\ pc' = [pc EXCEPT ![r] = "raised"]
    /\ UNCHANGED apiVars
    /\ UNCHANGED <<ANTHROPIC_API_KEY, request, provider, prompt, work_queue,
                   model_idx, response_text, result, branch>>

(***************************************************************************)
(* generate_widget_html after its await                                    *)
(***************************************************************************)
\* the completion text goes through the extraction cascade
ExtractAndReturn(r) ==
    /\ pc[r] = "returned"
    /\ \E x \in {extract(response_text[r])} :
           /\ result' = [result EXCEPT ![r] = x.html]
           /\ branch' = [branch EXCEPT ![r] = MethodName[x.method]]
    /\ pc' = [pc EXCEPT ![r] = "done"]
    /\ UNCHANGED apiVars
    /\ UNCHANGED <<ANTHROPIC_API_KEY, request, provider, prompt, work_queue,
                   model_idx, calls, last_error, failure, response_text>>

\* return clean_html(widget_html)
CleanAndReturn(r) ==
    /\ pc[r] = "cleaning"
    /\ \E x \in {clean_html(response_text[r])} :
           result' = [result EXCEPT ![r] = x]
    /\ branch' = [branch EXCEPT ![r] = "clean_html"]
    /\ pc' = [pc EXCEPT ![r] = "done"]
    /\ UNCHANGED apiVars
    /\ UNCHANGED <<ANTHROPIC_API_KEY, request, provider, prompt, work_queue,
                   model_idx, calls, last_error, failure, response_text>>

\* except Exception: the error widget is returned
ReturnGenerationError(r) ==
    /\ pc[r] = "raised"
    /\ result' = [result EXCEPT ![r] = GenerationErrorFragment(failure[r])]
    /\ branch' = [branch EXCEPT ![r] = "generation_error"]
    /\ pc' = [pc EXCEPT ![r] = "done"]
    /\ UNCHANGED apiVars
    /\ UNCHANGED <<ANTHROPIC_API_KEY, request, provider, prompt, work_queue,
                   model_idx, calls, last_error, failure, response_text>>

(***************************************************************************)
(* The endpoints. Each database call is one step, except the upsert of     *)
(* share_data, whose query and write are two; the database answers every  *)
(* call.                                                                   *)
(***************************************************************************)
genVars == <<ANTHROPIC_API_KEY, request, provider, pc, prompt, work_queue, model_idx,
             calls, last_error, failure, response_text, result, branch>>

\* a POST /register arrives
ReceiveRegister(q) ==
    /\ http[q].pc = "idle"
    /\ \A p \in HttpRequests : p < q => http[p].pc # "idle"
    /\ \E tok \in RegistrationTokens :
          http' = [http EXCEPT ![q] = [Idle EXCEPT !.pc = "verify_registration_token",
                                                  !.kind = "register",
                                                  !.registration_token = tok]]
    /\ UNCHANGED <<apps, widgets, next_oid>>
    /\ UNCHANGED genVars

\* verify_registration_token
VerifyRegistrationToken(q) ==
    /\ http[q].pc = "verify_registration_token"
    /\ http' = [http EXCEPT ![q] =
                  IF http[q].registration_token # REGISTRATION_TOKEN
                  THEN Respond(@, 401, "Invalid registration token")
                  ELSE [@ EXCEPT !.pc = "save_app"]]
    /\ UNCHANGED <<apps, widgets, next_oid>>
    /\ UNCHANGED genVars

\* register_app: a token is made, save_app inserts the app document, the token
\* and the app's id are returned
SaveApp(q) ==
    /\ http[q].pc = "save_app"
    /\ apps' = apps \cup {[_id |-> next_oid, integration_token |-> next_oid]}
    /\ next_oid' = next_oid + 1
    /\ http' = [http EXCEPT ![q] = [Respond(@, 200, "") EXCEPT !.inserted = next_oid]]
    /\ UNCHANGED widgets
    /\ UNCHANGED genVars

\* a POST /share-data arrives; it carries token 0 or a token made so far (a
\* token_urlsafe(32) value is not one a sender has before it is issued)
ReceiveShareData(q) ==
    /\ http[q].pc = "idle"
    /\ \A p \in HttpRequests : p < q => http[p].pc # "idle"
    /\ \E tok \in {t \in IntegrationTokens : t < next_oid}, payload \in Payloads :
          http' = [http EXCEPT ![q] = [Idle EXCEPT !.pc = "verify_integration_token",
                                                  !.kind = "share_data",
                                                  !.integration_token = tok,
                                                  !.data = payload.data,
                                                  !.render_prompt = payload.render_prompt,
                                                  !.prompt = payload.render_prompt]]
    /\ UNCHANGED <<apps, widgets, next_oid>>
    /\ UNCHANGED genVars

\* verify_integration_token: find_one on the token
VerifyIntegrationToken(q) ==
    /\ http[q].pc = "verify_integration_token"
    /\ \E found \in {{a \in apps : a.integration_token = http[q].integration_token}} :
          http' = [http EXCEPT ![q] =
                     IF found = {}
                     THEN Respond(@, 401, "Invalid integration token")
                     ELSE [@ EXCEPT !.pc = "generate_widget_html",
                                    !.app = (CHOOSE a \in found : TRUE)._id]]
    /\ UNCHANGED <<apps, widgets, next_oid>>
    /\ UNCHANGED genVars

\* the step of a handler that follows its generation
AfterGeneration(kind) ==
    CASE kind = "share_data" -> "save_widget"
      [] kind = "create_user_widget" -> "save_user_widget"
      [] kind \in {"refresh_app_widget", "full_refresh_app_widget"} -> "update_app_widget"
      [] OTHER -> "update_user_widget"

\* widget_html = await generate_widget_html(...) in a handler. share_data
\* lets an exception through to the framework; the other handlers answer it
\* with 'Failed to generate widget'
GenerateWidget(q) ==
    /\ http[q].pc = "generate_widget_html"
    /\ \E outcome \in GenerationOutcomes :
          http' = [http EXCEPT ![q] =
                     IF outcome.raised
                     THEN Respond(@, 500,
                             IF @.kind = "share_data" THEN "Internal Server Error"
                             ELSE "Failed to generate widget")
                     ELSE [@ EXCEPT !.pc = AfterGeneration(http[q].kind),
                                    !.widget_html = outcome.html,
                                    !.generations = @ + 1]]
    /\ UNCHANGED <<apps, widgets, next_oid>>
    /\ UNCHANGED genVars

\* share_data: save_widget, update_one on app_id with upsert=True; the server
\* first looks for a document with that app_id
SaveWidgetQuery(q) ==
    /\ http[q].pc = "save_widget"
    /\ http' = [http EXCEPT ![q].pc = "upsert_widget",
                            ![q].matched = (\E w \in widgets : w.app_id = http[q].app)]
    /\ UNCHANGED <<apps, widgets, next_oid>>
    /\ UNCHANGED genVars

\* the document share_data writes
widget_doc(h, id) ==
    [_id |-> id, app_id |-> h.app, user_created |-> FALSE, data |-> h.data,
     render_prompt |-> h.render_prompt, generated_html |-> h.widget_html]

\* share_data: the write of the upsert and the response. A document that
\* matches is updated; when the query found none, one is inserted. No unique
\* index on app_id exists, so an upsert whose query found none may insert
\* although another upsert has inserted in between
SaveWidget(q) ==
    /\ http[q].pc = "upsert_widget"
    /\ \E matching \in {{w \in widgets : w.app_id = http[q].app}} :
          \/ /\ matching # {}
             /\ \E w \in matching :
                   widgets' = (widgets \ {w}) \cup {widget_doc(http[q], w._id)}
             /\ UNCHANGED next_oid
          \/ /\ matching = {} \/ ~http[q].matched
             /\ widgets' = widgets \cup {widget_doc(http[q], next_oid)}
             /\ next_oid' = next_oid + 1
    /\ http' = [http EXCEPT ![q] =
                  [Respond(@, 200, "Data shared and widget generated successfully")
                      EXCEPT !.writes = @ + 1]]
    /\ UNCHANGED apps
    /\ UNCHANGED genVars

\* a DELETE /api/app-widgets/{app_id} arrives
ReceiveDelete(q) ==
    /\ http[q].pc = "idle"
    /\ \A p \in HttpRequests : p < q => http[p].pc # "idle"
    /\ \E id \in PathAppIds :
          http' = [http EXCEPT ![q] = [Idle EXCEPT !.pc = "delete_widget",
                                                  !.kind = "delete_app_widget",
                                                  !.app_id = id]]
    /\ UNCHANGED <<apps, widgets, next_oid>>
    /\ UNCHANGED genVars

\* delete_app_and_widget: widgets_collection.delete_one on app_id
DeleteWidget(q) ==
    /\ http[q].pc = "delete_widget"
    /\ \E matching \in {{w \in widgets :
                            http[q].app_id.valid /\ w.app_id = http[q].app_id.oid}} :
          IF matching = {} THEN UNCHANGED widgets
          ELSE \E w \in matching : widgets' = widgets \ {w}
    /\ http' = [http EXCEPT ![q].pc = "delete_app", ![q].writes = @ + 1]
    /\ UNCHANGED <<apps, next_oid>>
    /\ UNCHANGED genVars

\* delete_app_and_widget: apps_collection.delete_one on ObjectId(app_id), and
\* the response
DeleteApp(q) ==
    /\ http[q].pc = "delete_app"
    /\ IF ~http[q].app_id.valid
       THEN \* ObjectId(app_id) raises InvalidId
            /\ http' = [http EXCEPT ![q] =
                          Respond(@, 500, "Database error: not a valid ObjectId")]
            /\ UNCHANGED apps
       ELSE \E matching \in {{a \in apps : a._id = http[q].app_id.oid}} :
              IF matching = {}
              THEN /\ http' = [http EXCEPT ![q] = Respond(@, 404, "App not found")]
                   /\ UNCHANGED apps
              ELSE /\ http' = [http EXCEPT ![q] =
                                 Respond(@, 200, "App and widget deleted successfully")]
                   /\ apps' = apps \ matching
    /\ UNCHANGED <<widgets, next_oid>>
    /\ UNCHANGED genVars

\* the prompt a handler regenerates with: a refresh appends the style
\* instruction to the stored prompt, a full refresh takes the stored prompt
RegenerationPrompt(kind, widget) ==
    IF kind \in {"refresh_app_widget", "refresh_user_widget"}
    THEN widget.render_prompt \o style_instruction(widget.generated_html)
    ELSE widget.render_prompt

\* a POST /api/app-widgets/{app_id}/refresh or .../full-refresh arrives, and
\* its find_one on the path's app_id and user_created not True; the prompt is
\* built from the document found
FindAppWidget(q) ==
    /\ http[q].pc = "idle"
    /\ \A p \in HttpRequests : p < q => http[p].pc # "idle"
    /\ \E id \in PathAppIds, kind \in {"refresh_app_widget", "full_refresh_app_widget"} :
          \E matching \in {{w \in widgets : /\ id.valid
                                             /\ w.app_id = id.oid
                                             /\ ~w.user_created}} :
             IF matching = {}
             THEN http' = [http EXCEPT ![q] =
                             Respond([Idle EXCEPT !.kind = kind, !.app_id = id],
                                     404, "App widget not found")]
             ELSE \E widget \in matching :
                    http' = [http EXCEPT ![q] =
                               [Idle EXCEPT !.pc = "generate_widget_html",
                                            !.kind = kind,
                                            !.app_id = id,
                                            !.data = widget.data,
                                            !.render_prompt = widget.render_prompt,
                                            !.prompt = RegenerationPrompt(kind, widget)]]
    /\ UNCHANGED <<apps, widgets, next_oid>>
    /\ UNCHANGED genVars

UpdateAppWidgetWithPrompt(q) ==
    /\ http[q].pc = "update_app_widget"
    /\ \E matching \in {{w \in widgets : w.app_id = http[q].app_id.oid}} :
          IF matching = {} THEN UNCHANGED widgets
          ELSE \E w \in matching :
                 widgets' = (widgets \ {w})
                    \cup {[w EXCEPT !.generated_html = http[q].widget_html,
                                    !.render_prompt = http[q].prompt]}
    /\ http' = [http EXCEPT ![q] =
                  [Respond(@, 200, IF @.kind = "refresh_app_widget"
                                   THEN "Widget refreshed successfully"
                                   ELSE "Widget fully refreshed successfully")
                      EXCEPT !.writes = @ + 1]]
    /\ UNCHANGED <<apps, next_oid>>
    /\ UNCHANGED genVars

\* refresh_app_widget, full_refresh_app_widget: update_one on app_id, without
\* upsert, sets generated_html (and updated_at); the response
UpdateAppWidget(q) ==
    /\ http[q].pc = "update_app_widget"
    /\ \E matching \in {{w \in widgets : w.app_id = http[q].app_id.oid}} :
          IF matching = {} THEN UNCHANGED widgets
          ELSE \E w \in matching :
                 widgets' = (widgets \ {w})
                    \cup {[w EXCEPT !.generated_html = http[q].widget_html]}
    /\ http' = [http EXCEPT ![q] =
                  [Respond(@, 200, IF @.kind = "refresh_app_widget"
                                   THEN "Widget refreshed successfully"
                                   ELSE "Widget fully refreshed successfully")
                      EXCEPT !.writes = @ + 1]]
    /\ UNCHANGED <<apps, next_oid>>
    /\ UNCHANGED genVars

\* a POST /api/user-widgets/create arrives
ReceiveCreate(q) ==
    /\ http[q].pc = "idle"
    /\ \A p \in HttpRequests : p < q => http[p].pc # "idle"
    /\ \E p \in Prompts :
          http' = [http EXCEPT ![q] = [Idle EXCEPT !.pc = "generate_widget_html",
                                                  !.kind = "create_user_widget",
                                                  !.data = "{}",
                                                  !.render_prompt = p,
                                                  !.prompt = p]]
    /\ UNCHANGED <<apps, widgets, next_oid>>
    /\ UNCHANGED genVars

\* create_user_widget: insert_one, and the response
SaveUserWidget(q) ==
    /\ http[q].pc = "save_user_widget"
    /\ widgets' = widgets \cup {[_id |-> next_oid, app_id |-> 0, user_created |-> TRUE,
                                 data |-> "{}", render_prompt |-> http[q].render_prompt,
                                 generated_html |-> http[q].widget_html]}
    /\ next_oid' = next_oid + 1
    /\ http' = [http EXCEPT ![q] =
                  [Respond(@, 200, "User widget created successfully")
                      EXCEPT !.inserted = next_oid, !.writes = @ + 1]]
    /\ UNCHANGED apps
    /\ UNCHANGED genVars

\* the requests on a stored user widget: an edit with its new prompt, a
\* refresh, a full refresh
UserWidgetRequests ==
    {[kind |-> "edit_user_widget", prompt |-> p] : p \in Prompts}
        \cup {[kind |-> k, prompt |-> <<>>] :
                 k \in {"refresh_user_widget", "full_refresh_user_widget"}}

\* a POST /api/user-widgets/edit, /api/user-widgets/{widget_id}/refresh or
\* .../full-refresh arrives, and its find_one on ObjectId(widget_id) and
\* user_created True
FindUserWidget(q) ==
    /\ http[q].pc = "idle"
    /\ \A p \in HttpRequests : p < q => http[p].pc # "idle"
    /\ \E id \in PathAppIds, req \in UserWidgetRequests :
          LET h == [Idle EXCEPT !.kind = req.kind, !.widget_id = id] IN
            IF ~id.valid
            THEN \* ObjectId(widget_id) raises InvalidId
                 http' = [http EXCEPT ![q] =
                            Respond(h, 500, "Database error: not a valid ObjectId")]
            ELSE \E matching \in {{w \in widgets : w._id = id.oid /\ w.user_created}} :
                   IF matching = {}
                   THEN http' = [http EXCEPT ![q] =
                                   Respond(h, 404, "User widget not found")]
                   ELSE \E widget \in matching :
                          http' = [http EXCEPT ![q] =
                             IF req.kind = "edit_user_widget"
                             THEN [h EXCEPT !.pc = "generate_widget_html",
                                            !.data = "{}",
                                            !.render_prompt = req.prompt,
                                            !.prompt = req.prompt]
                             ELSE [h EXCEPT !.pc = "generate_widget_html",
                                            !.data = "{}",
                                            !.render_prompt = widget.render_prompt,
                                            !.prompt = RegenerationPrompt(req.kind, widget)]]
    /\ UNCHANGED <<apps, widgets, next_oid>>
    /\ UNCHANGED genVars

UpdateUserWidgetUpsert(q) ==
    /\ http[q].pc = "update_user_widget"
    /\ \E matching \in {{w \in widgets : w._id = http[q].widget_id.oid}} :
          IF matching = {}
          THEN widgets' = widgets \cup
                  {[_id |-> http[q].widget_id.oid, app_id |-> 0, user_created |-> TRUE,
                    data |-> "{}", render_prompt |-> http[q].render_prompt,
                    generated_html |-> http[q].widget_html]}
          ELSE \E w \in matching :
                 widgets' = (widgets \ {w})
                    \cup {IF http[q].kind = "edit_user_widget"
                          THEN [w EXCEPT !.generated_html = http[q].widget_html,
                                         !.render_prompt = http[q].render_prompt]
                          ELSE [w EXCEPT !.generated_html = http[q].widget_html]}
    /\ http' = [http EXCEPT ![q] =
                  [Respond(@, 200, IF @.kind = "edit_user_widget"
                                   THEN "User widget updated successfully"
                                   ELSE "")
                      EXCEPT !.writes = @ + 1]]
    /\ UNCHANGED <<apps, next_oid>>
    /\ UNCHANGED genVars

\* edit_user_widget, refresh_user_widget, full_refresh_user_widget: update_one
\* on ObjectId(widget_id), without upsert; an edit sets render_prompt and
\* generated_html, a refresh generated_html (and both updated_at); the response
UpdateUserWidget(q) ==
    /\ http[q].pc = "update_user_widget"
    /\ \E matching \in {{w \in widgets : w._id = http[q].widget_id.oid}} :
          IF matching = {} THEN UNCHANGED widgets
          ELSE \E w \in matching :
                 widgets' = (widgets \ {w})
                    \cup {IF http[q].kind = "edit_user_widget"
                          THEN [w EXCEPT !.generated_html = http[q].widget_html,
                                         !.render_prompt = http[q].render_prompt]
                          ELSE [w EXCEPT !.generated_html = http[q].widget_html]}
    /\ http' = [http EXCEPT ![q] =
                  [Respond(@, 200, IF @.kind = "edit_user_widget"
                                   THEN "User widget updated successfully"
                                   ELSE "")
                      EXCEPT !.writes = @ + 1]]
    /\ UNCHANGED <<apps, next_oid>>
    /\ UNCHANGED genVars

\* a POST /api/user-widgets/delete arrives; its delete_one on
\* ObjectId(widget_id) and user_created True, and the response
DeleteUserWidget(q) ==
    /\ http[q].pc = "idle"
    /\ \A p \in HttpRequests : p < q => http[p].pc # "idle"
    /\ \E id \in PathAppIds :
          LET h == [Idle EXCEPT !.kind = "delete_user_widget", !.widget_id = id] IN
            IF ~id.valid
            THEN \* ObjectId(widget_id) raises InvalidId
                 /\ http' = [http EXCEPT ![q] =
                               Respond(h, 500, "Database error: not a valid ObjectId")]
                 /\ UNCHANGED widgets
            ELSE \E matching \in {{w \in widgets : w._id = id.oid /\ w.user_created}} :
                   IF matching = {}
                   THEN /\ http' = [http EXCEPT ![q] =
                                      Respond(h, 404, "User widget not found")]
                        /\ UNCHANGED widgets
                   ELSE /\ http' = [http EXCEPT ![q] =
                                      [Respond(h, 200, "User widget deleted successfully")
                                          EXCEPT !.writes = @ + 1]]
                        /\ widgets' = widgets \ matching
    /\ UNCHANGED <<apps, next_oid>>
    /\ UNCHANGED genVars

NextApi ==
    \/ \E q \in HttpRequests : ReceiveRegister(q)
    \/ \E q \in HttpRequests : VerifyRegistrationToken(q)
    \/ \E q \in HttpRequests : SaveApp(q)
    \/ \E q \in HttpRequests : ReceiveShareData(q)
    \/ \E q \in HttpRequests : VerifyIntegrationToken(q)
    \/ \E q \in HttpRequests : GenerateWidget(q)
    \/ \E q \in HttpRequests : SaveWidgetQuery(q)
    \/ \E q \in HttpRequests : SaveWidget(q)
    \/ \E q \in HttpRequests : ReceiveDelete(q)
    \/ \E q \in HttpRequests : DeleteWidget(q)
    \/ \E q \in HttpRequests : DeleteApp(q)

\* the app widget endpoints of one registered app
NextAppWidgets ==
    \/ \E q \in HttpRequests : ReceiveShareData(q)
    \/ \E q \in HttpRequests : VerifyIntegrationToken(q)
    \/ \E q \in HttpRequests : GenerateWidget(q)
    \/ \E q \in HttpRequests : SaveWidgetQuery(q)
    \/ \E q \in HttpRequests : SaveWidget(q)
    \/ \E q \in HttpRequests : FindAppWidget(q)
    \/ \E q \in HttpRequests : UpdateAppWidget(q)
    \/ \E q \in HttpRequests : ReceiveDelete(q)
    \/ \E q \in HttpRequests : DeleteWidget(q)
    \/ \E q \in HttpRequests : DeleteApp(q)

\* the user widget endpoints
NextUserWidgets ==
    \/ \E q \in HttpRequests : ReceiveCreate(q)
    \/ \E q \in HttpRequests : GenerateWidget(q)
    \/ \E q \in HttpRequests : SaveUserWidget(q)
    \/ \E q \in HttpRequests : FindUserWidget(q)
    \/ \E q \in HttpRequests : UpdateUserWidget(q)
    \/ \E q \in HttpRequests : DeleteUserWidget(q)

\* the regenerations of stored widgets
NextRefresh ==
    \/ \E q \in HttpRequests : FindAppWidget(q)
    \/ \E q \in HttpRequests : FindUserWidget(q)
    \/ \E q \in HttpRequests : GenerateWidget(q)
    \/ \E q \in HttpRequests : UpdateAppWidget(q)
    \/ \E q \in HttpRequests : UpdateUserWidget(q)

Next ==
    \/ \E r \in Requests : ReturnConfigError(r)
    \/ \E r \in Requests : Dispatch(r)
    \/ \E r \in Requests : WorkerTake(r)
    \/ \E r \in Requests : CallSucceeds(r)
    \/ \E r \in Requests : CallMalformed(r)
    \/ \E r \in Requests : CallNotFound(r)
    \/ \E r \in Requests : CallFails(r)
    \/ \E r \in Requests : ExtractAndReturn(r)
    \/ \E r \in Requests : ReturnGenerationError(r)

NextExtract == \E r \in Requests : ExtractAndReturn(r)
NextClean == \E r \in Requests : CleanAndReturn(r)

Spec == Init /\ [][Next]_vars
SpecPool == InitPool /\ [][Next]_vars
\* the event loop, the workers of the pool and the provider do not all stop
\* while one of them has something to do: a ready coroutine is run, a free
\* worker takes the oldest queued call, a call to the provider returns or
\* raises
Fairness == WF_vars(Next)
SpecPoolFair == SpecPool /\ Fairness
SpecExtract == InitExtract /\ [][NextExtract]_vars
SpecDocument == InitDocument /\ [][NextExtract]_vars
SpecClean == InitClean /\ [][NextClean]_vars
SpecFragment == InitFragment /\ [][NextExtract]_vars
SpecMarked == InitMarked /\ [][NextExtract]_vars
SpecApi == InitApi /\ [][NextApi]_vars
SpecAppWidgets == InitRegistered /\ [][NextAppWidgets]_vars
SpecUserWidgets == InitStored /\ [][NextUserWidgets]_vars
SpecRefresh == InitStored /\ [][NextRefresh]_vars

(***************************************************************************)
(* Properties                                                              *)
(***************************************************************************)
ExtractionBranches == {MethodName[k] : k \in 1..Len(MethodName)}
IsText(x) == x \in Seq(STRING)

\* the error texts of the not-found class among the provider's errors
NotFoundTexts == {Err404, ErrNotFound}
NotFoundOutcome(o) == o.kind = "error" /\ o.msg \in NotFoundTexts

\* the first candidate whose outcome is not a not-found error, 0 if there is none
FirstDecisive(sc) ==
    IF \A c \in Candidates : NotFoundOutcome(sc[c]) THEN 0
    ELSE SetMin({c \in Candidates : ~NotFoundOutcome(sc[c])})

\* C1: extraction is total: whatever the completion text, the empty text
\* included, the cascade raises nothing, and it ends by returning a string
\* from one of its seven return statements; the last of them returns the
\* text wrapped as it is.
C1_ExtractionTotal ==
    \A r \in Requests :
        /\ pc[r] \in {"absent", "returned", "done"}
        /\ pc[r] = "done" =>
              /\ branch[r] \in ExtractionBranches
              /\ IsText(result[r])
              /\ branch[r] = "last_resort" =>
                    result[r] = WrapperHead \o response_text[r] \o WrapperTail

\* the empty completion text has been returned wrapped by the last resort
C1_Witness ==
    /\ pc[1] = "done"
    /\ response_text[1] = <<>>
    /\ branch[1] = "last_resort"
    /\ result[1] = WrapperHead \o WrapperTail

\* C2: a failure of the completion-service call (an error that is not of the
\* not-found class, every candidate not found, a message without content) never
\* leaves generate_widget_html as an exception: the call has the handler to go
\* to, and it ends having returned the Generation Error fragment that embeds
\* str(e) of that failure.
C2_FailuresAbsorbed ==
    \A r \in Requests :
        /\ pc[r] # "escaped"
        /\ pc[r] = "raised" => ENABLED ReturnGenerationError(r)
        /\ (pc[r] = "done" /\ ANTHROPIC_API_KEY # "") =>
              \E d \in {FirstDecisive(provider[r])} :
                 CASE d = 0 ->
                        /\ branch[r] = "generation_error"
                        /\ result[r] = GenerationErrorFragment(
                              Chars("None of the available models worked. Last error: ")
                              \o provider[r][Len(models_to_try)].msg)
                   [] d # 0 /\ provider[r][d].kind = "error" ->
                        /\ branch[r] = "generation_error"
                        /\ result[r] = GenerationErrorFragment(provider[r][d].msg)
                   [] d # 0 /\ provider[r][d].kind = "empty" ->
                        /\ branch[r] = "generation_error"
                        /\ result[r] = GenerationErrorFragment(IndexErrorMsg)
                   [] OTHER -> branch[r] \in ExtractionBranches

\* an overloaded provider has been turned into the Generation Error fragment
C2_Witness ==
    /\ pc[1] = "done"
    /\ provider[1][1] = Raises(Err529)
    /\ branch[1] = "generation_error"
    /\ result[1] = GenerationErrorFragment(Err529)

\* C3: with an empty credential no prompt is built, nothing is handed to the
\* executor, no candidate is called, and the call returns the Configuration
\* Error fragment, whatever data and prompt it was given.
C3_NoCredentialNoCall ==
    ANTHROPIC_API_KEY = "" =>
        /\ work_queue = <<>>
        /\ \A r \in Requests :
              /\ pc[r] \in {"absent", "start", "done"}
              /\ calls[r] = <<>>
              /\ prompt[r] = "none"
              /\ pc[r] = "done" =>
                    /\ branch[r] = "config_error"
                    /\ result[r] = ConfigErrorFragment

\* without a credential a call with data and a style-preserving prompt has
\* returned the Configuration Error fragment
C3_Witness ==
    /\ ANTHROPIC_API_KEY = ""
    /\ pc[1] = "done"
    /\ request[1].has_data
    /\ has_style_preservation(request[1].render_prompt)
    /\ result[1] = ConfigErrorFragment

\* C4: when, in a call that has a credential, the first k candidates fail with
\* a not-found error and candidate k+1 answers, the candidates are called in
\* list order, none after k+1 is called, and the call returns the text of
\* candidate k+1 as it is.
C4_FirstSuccessWins ==
    \A r \in Requests :
        \E d \in {FirstDecisive(provider[r])} :
            (ANTHROPIC_API_KEY # "" /\ d # 0 /\ provider[r][d].kind = "message") =>
                /\ Len(calls[r]) <= d
                /\ \A i \in 1..Len(calls[r]) : calls[r][i] = i
                /\ pc[r] # "raised"
                /\ pc[r] \in {"returned", "done"} =>
                      /\ Len(calls[r]) = d
                      /\ response_text[r] = provider[r][d].text
                /\ pc[r] = "done" => branch[r] \in ExtractionBranches

\* two candidates were not found, the third answered and the fourth, which
\* would have answered too, was not called
C4_Witness ==
    /\ pc[1] = "returned"
    /\ NotFoundOutcome(provider[1][1])
    /\ NotFoundOutcome(provider[1][2])
    /\ provider[1][3] = Message(TextB)
    /\ provider[1][4] = Message(TextA)
    /\ calls[1] = <<1, 2, 3>>
    /\ response_text[1] = TextB

\* C5: a candidate other than the first is called only after the one before
\* it failed with a not-found error; an error of any other class is re-raised
\* at once, so that it ends the calls and is the failure of the whole call.
C5_AdvanceOnlyOnNotFound ==
    \A r \in Requests :
        /\ \A i \in 2..Len(calls[r]) :
              /\ calls[r][i] = calls[r][i - 1] + 1
              /\ NotFoundOutcome(provider[r][calls[r][i - 1]])
        /\ \A i \in 1..Len(calls[r]) :
              (/\ provider[r][calls[r][i]].kind = "error"
               /\ ~NotFoundOutcome(provider[r][calls[r][i]])) =>
                    /\ i = Len(calls[r])
                    /\ pc[r] \in {"raised", "done"}
                    /\ failure[r] = provider[r][calls[r][i]].msg

\* the first candidate was not found, the second was overloaded, and the
\* third, which would have answered, was not called
C5_Witness ==
    /\ pc[1] = "raised"
    /\ provider[1][1] = Raises(Err404)
    /\ provider[1][2] = Raises(Err529)
    /\ provider[1][3] = Message(TextA)
    /\ calls[1] = <<1, 2>>
    /\ failure[1] = Err529

\* C6: the fallback is one pass over the list: in one generation every
\* candidate is called at most once and never after a later one, so there are
\* at most four calls, and when all four were not found the generation has
\* failed with the exhaustion error instead of calling again.
C6_SinglePass ==
    \A r \in Requests :
        /\ Len(calls[r]) <= Len(models_to_try)
        /\ \A i, j \in 1..Len(calls[r]) : i < j => calls[r][i] < calls[r][j]
        /\ (/\ Len(calls[r]) = Len(models_to_try)
            /\ \A c \in Candidates : NotFoundOutcome(provider[r][c])) =>
                 /\ pc[r] \in {"raised", "done"}
                 /\ failure[r] = Chars("None of the available models worked. Last error: ")
                                    \o provider[r][Len(models_to_try)].msg
                 /\ pc[r] = "done" => branch[r] = "generation_error"

\* all four candidates were called once and not found, and the generation
\* has ended with the Generation Error fragment
C6_Witness ==
    /\ pc[1] = "done"
    /\ calls[1] = <<1, 2, 3, 4>>
    /\ \A c \in Candidates : NotFoundOutcome(provider[1][c])
    /\ branch[1] = "generation_error"

\* C7: at no moment are more than five calls of call_anthropic_api executing,
\* however many generations are in progress.
C7_PoolCeiling ==
    Cardinality({r \in Requests : pc[r] = "running"}) <= 5

\* five calls are executing while a sixth waits in the executor's queue
C7_Witness ==
    /\ Cardinality({r \in Requests : pc[r] = "running"}) = 5
    /\ work_queue # <<>>

FenceOpenAt(t) ==
    With({i \in 1..Len(t) : LitAt(t, i, Fence \o Chars("html"), TRUE)}, LAMBDA S :
        IF S = {} THEN 0 ELSE SetMin(S))
FenceCloseAt(t) ==
    With(FenceOpenAt(t), LAMBDA o :
        IF o = 0 THEN 0
        ELSE With({i \in (o + 7)..Len(t) : LitAt(t, i, Fence, FALSE)}, LAMBDA S :
                IF S = {} THEN 0 ELSE SetMin(S)))
\* t holds an html-tagged fenced block; what the block encloses, trimmed
HasHtmlFencedBlock(t) == FenceCloseAt(t) # 0
FencedContent(t) == strip(Slice(t, FenceOpenAt(t) + 7, FenceCloseAt(t) - 1))
\* where in t an <html ...> tag with an </html> after it starts (0: nowhere)
DocumentAt(t) ==
    With({i \in 1..Len(t) :
            /\ LitAt(t, i, Chars("<html"), TRUE)
            /\ \E j \in (i + 5)..Len(t) :
                  /\ t[j] = ">"
                  /\ \E k \in (j + 1)..Len(t) : LitAt(t, k, Chars("</html>"), TRUE)},
         LAMBDA S : IF S = {} THEN 0 ELSE SetMin(S))
\* the places of c where a blank-line break followed by a lead-in starts
LeadInBreaks(c) ==
    {p \in 1..Len(c) :
        /\ LitAt(c, p, <<"\n", "\n">>, FALSE)
        /\ \E q \in (p + 2)..Len(c) :
              /\ \A i \in (p + 2)..(q - 1) : c[i] \in Whitespace
              /\ \E k \in 1..Len(LeadIns) : LitAt(c, q, Chars(LeadIns[k]), TRUE)}
\* c up to its first such break, trimmed
BeforeLeadIn(c) ==
    With(LeadInBreaks(c), LAMBDA B :
        IF B = {} THEN c ELSE strip(Slice(c, 1, SetMin(B) - 1)))

\* C9: when the completion text holds an html-tagged fenced block and also
\* <html> ... </html> document tags, the fragment returned is the one method
\* 1 makes of the fenced block: what the block encloses, cut at a lead-in and
\* cleaned; the document tags do not decide it.
C9_FencedBlockPrecedence ==
    \A r \in Requests :
        (/\ pc[r] = "done"
         /\ branch[r] \in ExtractionBranches
         /\ HasHtmlFencedBlock(response_text[r])
         /\ DocumentAt(response_text[r]) # 0) =>
              /\ branch[r] = "method1"
              /\ result[r] = clean_html(BeforeLeadIn(FencedContent(response_text[r])))

\* a fenced block followed by a whole document: the block's div was returned,
\* the document's paragraph was not
C9_Witness ==
    /\ pc[1] = "done"
    /\ HasHtmlFencedBlock(response_text[1])
    /\ DocumentAt(response_text[1]) > FenceCloseAt(response_text[1])
    /\ branch[1] = "method1"
    /\ result[1] = Chars("<div>X</div>")

HasAngleBracket(t) == \E i \in 1..Len(t) : t[i] \in {"<", ">"}

\* C13, as stated: for every completion text without any angle bracket the
\* fragment returned is the last-resort wrapper around the whole text.
C13_NoAngleBracketWrapped ==
    \A r \in Requests :
        (/\ pc[r] = "done"
         /\ branch[r] \in ExtractionBranches
         /\ ~HasAngleBracket(response_text[r])) =>
              /\ branch[r] = "last_resort"
              /\ result[r] = WrapperHead \o response_text[r] \o WrapperTail

\* C13, amended: for every completion text without any angle bracket and
\* without an html-tagged fenced block, the fragment returned is the
\* last-resort wrapper: the whole text, unchanged, between the wrapper's
\* opening and closing lines, with no cleanup.
C13_PlainTextWrapped ==
    \A r \in Requests :
        (/\ pc[r] = "done"
         /\ branch[r] \in ExtractionBranches
         /\ ~HasAngleBracket(response_text[r])
         /\ ~HasHtmlFencedBlock(response_text[r])) =>
              /\ branch[r] = "last_resort"
              /\ result[r] = WrapperHead \o response_text[r] \o WrapperTail

\* a fenced text without any tag in it has been returned wrapped, fences and all
C13_Witness ==
    /\ pc[1] = "done"
    /\ response_text[1] = Fence \o Chars("This") \o Fence
    /\ branch[1] = "last_resort"
    /\ result[1] = WrapperHead \o Fence \o Chars("This") \o Fence \o WrapperTail

\* the document-level tokens the cleanup pass looks for
DocumentTokens ==
    {Chars("<!doctype"), Chars("<html"), Chars("</html>"), Chars("<head"),
     Chars("<body"), Chars("</body>"), Chars("<meta"), Chars("<title")}
HasDocumentToken(c) == \E tok \in DocumentTokens : Contains(lower(c), tok)

\* C14, as stated: when the completion text holds an html-tagged fenced
\* block, the fragment returned contains what the block encloses and no
\* fence delimiter.
C14_FencedContentReturned ==
    \A r \in Requests :
        (/\ pc[r] = "done"
         /\ branch[r] \in ExtractionBranches
         /\ HasHtmlFencedBlock(response_text[r])) =>
              /\ Contains(result[r], FencedContent(response_text[r]))
              /\ ~Contains(result[r], Fence)

\* C14, amended: when the completion text holds an html-tagged fenced block
\* and what the block encloses has no blank-line break followed by a lead-in
\* and none of the document-level tokens the cleanup pass looks for, the
\* fragment returned is what the block encloses, trimmed, and it holds no
\* fence delimiter.
C14_PlainFencedContentReturned ==
    \A r \in Requests :
        (/\ pc[r] = "done"
         /\ branch[r] \in ExtractionBranches
         /\ HasHtmlFencedBlock(response_text[r])
         /\ LeadInBreaks(FencedContent(response_text[r])) = {}
         /\ ~HasDocumentToken(FencedContent(response_text[r]))) =>
              /\ branch[r] = "method1"
              /\ result[r] = FencedContent(response_text[r])
              /\ ~Contains(result[r], Fence)

\* a fenced div with text before the fence: the div alone was returned
C14_Witness ==
    /\ pc[1] = "done"
    /\ response_text[1] =
          Chars("This") \o Fence \o Chars("html\n<div>X</div>") \o Fence
    /\ branch[1] = "method1"
    /\ result[1] = Chars("<div>X</div>")
    /\ ~Contains(result[1], Fence)

\* the first place at or after from where lit stands in s, in any case when
\* ic (0: nowhere)
FindFrom(s, lit, from, ic) ==
    With({i \in from..Len(s) : LitAt(s, i, lit, ic)}, LAMBDA S :
        IF S = {} THEN 0 ELSE SetMin(S))
\* how many times sub stands in s
Count(s, sub) == Cardinality({i \in 1..Len(s) : LitAt(s, i, sub, FALSE)})

\* the first section of t that opens with a tag beginning with open and
\* closes with the tag close: where it starts, where its content starts and
\* ends, where it ends (ok FALSE: there is none)
SectionOf(t, open, close) ==
    With({i \in 1..Len(t) :
            /\ LitAt(t, i, open, TRUE)
            /\ With(FindFrom(t, GT, i + Len(open), FALSE), LAMBDA j :
                  j # 0 /\ FindFrom(t, close, j + 1, TRUE) # 0)},
         LAMBDA S :
            IF S = {} THEN [ok |-> FALSE]
            ELSE With(SetMin(S), LAMBDA i :
                 With(FindFrom(t, GT, i + Len(open), FALSE), LAMBDA j :
                 With(FindFrom(t, close, j + 1, TRUE), LAMBDA k :
                    [ok |-> TRUE, start |-> i, from |-> j + 1, to |-> k - 1,
                     end |-> k + Len(close) - 1]))))
HeadSection(t) == SectionOf(t, Chars("<head"), Chars("</head>"))
HeadContent(t) ==
    With(HeadSection(t), LAMBDA h : IF h.ok THEN Slice(t, h.from, h.to) ELSE <<>>)
BodyContent(t) ==
    With(SectionOf(t, Chars("<body"), Chars("</body>")), LAMBDA b :
        IF b.ok THEN Slice(t, b.from, b.to) ELSE <<>>)

\* the style blocks of c from position from on, in order
RECURSIVE StyleBlocksFrom(_, _)
StyleBlocksFrom(c, from) ==
    With(SectionOf(Slice(c, from, Len(c)), Chars("<style"), Chars("</style>")),
         LAMBDA b :
            IF ~b.ok THEN <<>>
            ELSE <<Slice(c, from + b.start - 1, from + b.end - 1)>>
                    \o StyleBlocksFrom(c, from + b.end))
StyleBlocks(c) == StyleBlocksFrom(c, 1)

\* t holds one of the phrases method 2 cuts at
HasExplanation(t) ==
    \E k \in 1..Len(Explanations) : Contains(lower(t), lower(Chars(Explanations[k])))
\* the four tokens of a whole document
WholeDocumentTokens == {Chars("<!doctype"), Chars("<html"), Chars("<head"), Chars("<body")}
HasWholeDocumentToken(t) == \E tok \in WholeDocumentTokens : Contains(lower(t), tok)

\* what the claim says of the fragment made of the whole document t: every
\* style block of the head is there as often as the head has it, the body's
\* content is there, the four tokens are not
DocumentStripped(t, fragment) ==
    /\ \A i \in 1..Len(StyleBlocks(HeadContent(t))) :
          Count(fragment, StyleBlocks(HeadContent(t))[i])
             = Count(HeadContent(t), StyleBlocks(HeadContent(t))[i])
    /\ Contains(fragment, BodyContent(t))
    /\ ~HasWholeDocumentToken(fragment)

C12_StylesBeforeContent ==
    \A r \in Requests :
        (/\ pc[r] = "done"
         /\ branch[r] = "clean_html"
         /\ HeadSection(response_text[r]).ok) =>
              /\ StyleBlocks(HeadContent(response_text[r])) # <<>> =>
                    startswith(result[r],
                               join_nl(StyleBlocks(HeadContent(response_text[r]))))
              /\ ~HeadSection(result[r]).ok

\* a div, then a head section with a style block: the style block was put
\* before the div
C12_Witness ==
    /\ pc[1] = "done"
    /\ branch[1] = "clean_html"
    /\ response_text[1] = Chars("<div>hi</div><head><style>.a{}</style></HEAD>")
    /\ result[1] = Chars("<style>.a{}</style>\n<div>hi</div>")

\* where the token of t that opens at i with open (and has at least one
\* character that is not '>' before its '>') ends (0: no such token at i)
TokenEnd(t, i, open) ==
    IF /\ LitAt(t, i, open, FALSE)
       /\ i + Len(open) <= Len(t)
       /\ t[i + Len(open)] # ">"
    THEN FindFrom(t, GT, i + Len(open) + 1, FALSE)
    ELSE 0
\* where the closing-tag tokens of t that start after position j start
ClosingTokensAfter(t, j) ==
    {k \in (j + 1)..Len(t) : TokenEnd(t, k, Chars("</")) # 0}
\* where the first '<...>' token of t that has a closing-tag token after it
\* starts (0: nowhere)
SpanStart(t) ==
    With({i \in 1..Len(t) :
            /\ TokenEnd(t, i, LT) # 0
            /\ ClosingTokensAfter(t, TokenEnd(t, i, LT)) # {}},
         LAMBDA S : IF S = {} THEN 0 ELSE SetMin(S))
\* from that token through the last closing-tag token of t, and through the
\* first one after it
WidestSpan(t) ==
    With(SpanStart(t), LAMBDA i :
        IF i = 0 THEN <<>>
        ELSE Slice(t, i, TokenEnd(t, SetMax(ClosingTokensAfter(t, TokenEnd(t, i, LT))),
                                  Chars("</"))))
NarrowSpan(t) ==
    With(SpanStart(t), LAMBDA i :
        IF i = 0 THEN <<>>
        ELSE Slice(t, i, TokenEnd(t, SetMin(ClosingTokensAfter(t, TokenEnd(t, i, LT))),
                                  Chars("</"))))
\* span, trimmed, up to its last line that holds '<' and '>' and does not
\* start with '-'
CutAfterLastTagLine(span) ==
    With(split_nl(strip(span)), LAMBDA lines :
    With({i \in 1..Len(lines) : looks_like_tag_line(lines[i])}, LAMBDA tag_lines :
        strip(join_nl(SubSeq(lines, 1,
                 IF tag_lines = {} THEN 1 ELSE SetMax(tag_lines))))))

\* C18: when method 4 decides, the fragment returned is the span from the
\* first '<...>' token through the last closing-tag token of the text, up to
\* its last tag line, so that a bare fragment of several elements is
\* returned whole.
C18_WidestSpanReturned ==
    \A r \in Requests :
        (pc[r] = "done" /\ branch[r] = "method4") =>
            result[r] = CutAfterLastTagLine(WidestSpan(response_text[r]))

\* where the first end-of-HTML mark of s starts: a lead-in phrase anywhere
\* or, when there is none, a blank line followed by This, These, The or
\* Here, in any case (0: nowhere)
EndMarkAt(s) ==
    With({p \in 1..Len(s) :
            \E k \in 1..Len(LeadIns) : LitAt(s, p, Chars(LeadIns[k]), TRUE)},
         LAMBDA L :
            IF L # {} THEN SetMin(L)
            ELSE With({p \in 1..Len(s) :
                        /\ LitAt(s, p, <<"\n", "\n">>, FALSE)
                        /\ \E w \in {"This", "These", "The", "Here"} :
                              LitAt(s, p + 2, Chars(w), TRUE)},
                      LAMBDA B : IF B = {} THEN 0 ELSE SetMin(B)))
\* the text method 5 is left with: t trimmed and cut before that mark
TruncatedAtEndMark(t) ==
    With(strip(t), LAMBDA s : With(EndMarkAt(s), LAMBDA p :
        IF p = 0 THEN s ELSE strip(Slice(s, 1, p - 1))))

\* C19, as stated: what method 5 returns is the truncated text without the
\* cleanup pass, the document-level tokens in it included.
C19_Method5NotCleaned ==
    \A r \in Requests :
        (pc[r] = "done" /\ branch[r] = "method5") =>
            result[r] = TruncatedAtEndMark(response_text[r])

\* C19, amended: what method 5 returns has gone through the cleanup pass: it
\* is the cleanup of the truncated text.
C19_Method5Cleaned ==
    \A r \in Requests :
        (pc[r] = "done" /\ branch[r] = "method5") =>
            result[r] = clean_html(TruncatedAtEndMark(response_text[r]))

\* a doctype, a line break tag and a lead-in: the line break tag alone was
\* returned
C19_Witness ==
    /\ pc[1] = "done"
    /\ response_text[1] = Chars("<!DOCTYPE html><br>This")
    /\ branch[1] = "method5"
    /\ result[1] = Chars("<br>")

\* C20: what method 4 returns has not gone through the cleanup pass: it is
\* the span from the first '<...>' token through the closing-tag token the
\* match ends at, up to its last tag line, with nothing deleted from it.
C20_Method4NotCleaned ==
    \A r \in Requests :
        (pc[r] = "done" /\ branch[r] = "method4") =>
            result[r] = CutAfterLastTagLine(NarrowSpan(response_text[r]))

\* a doctype, a body tag and a div: all three were returned
C20_Witness ==
    /\ pc[1] = "done"
    /\ response_text[1] = Chars("<!DOCTYPE html><body><div>A</div>")
    /\ branch[1] = "method4"
    /\ result[1] = Chars("<!DOCTYPE html><body><div>A</div>")
    /\ Contains(result[1], Chars("<!DOCTYPE"))
    /\ Contains(result[1], Chars("<body>"))

\* C15: a POST /register whose registration token is the configured one ends
\* with an app document stored and its integration token issued (200); with
\* any other token it ends with 401 'Invalid registration token' and has
\* stored nothing; and every app document in the collection was stored by a
\* request that carried the configured token.
C15_RegisterNeedsToken ==
    /\ \A q \in HttpRequests :
          http[q].kind = "register" =>
             /\ http[q].inserted # 0 =>
                    http[q].registration_token = REGISTRATION_TOKEN
             /\ http[q].pc = "done" =>
                    IF http[q].registration_token = REGISTRATION_TOKEN
                    THEN http[q].status = 200 /\ http[q].inserted # 0
                    ELSE /\ http[q].status = 401
                         /\ http[q].detail = "Invalid registration token"
                         /\ http[q].inserted = 0
    /\ \A a \in apps :
          \E q \in HttpRequests :
             /\ http[q].kind = "register"
             /\ http[q].inserted = a._id
             /\ http[q].registration_token = REGISTRATION_TOKEN
    /\ Cardinality(apps) <=
          Cardinality({q \in HttpRequests :
                          /\ http[q].kind = "register"
                          /\ http[q].registration_token = REGISTRATION_TOKEN})

\* a registration with a wrong token was answered 401 and one with the
\* configured token 200: only the second one's app is in the collection
C15_Witness ==
    /\ http[1].kind = "register" /\ http[1].pc = "done"
    /\ http[1].registration_token = "wrong_token"
    /\ http[1].status = 401
    /\ http[2].kind = "register" /\ http[2].pc = "done"
    /\ http[2].registration_token = REGISTRATION_TOKEN
    /\ http[2].status = 200
    /\ apps = {[_id |-> http[2].inserted, integration_token |-> http[2].inserted]}

\* the integration token request q carries belongs to an app of the collection
TokenRegistered(q) ==
    \E a \in apps : a.integration_token = http[q].integration_token

\* C16: when the token check of a POST /share-data is made and no app of the
\* collection has the request's integration token, that step ends the
\* request with 401 'Invalid integration token' and changes no collection;
\* the request has started no generation and written no widget, and it does
\* nothing afterwards.
C16_UnknownTokenRejected ==
    [][\A q \in HttpRequests :
          /\ (/\ http[q].pc = "verify_integration_token"
              /\ http'[q] # http[q]
              /\ ~TokenRegistered(q)) =>
                 /\ http'[q].pc = "done"
                 /\ http'[q].status = 401
                 /\ http'[q].detail = "Invalid integration token"
                 /\ http'[q].generations = 0
                 /\ http'[q].writes = 0
                 /\ UNCHANGED <<apps, widgets, next_oid>>
          /\ (http[q].kind = "share_data" /\ http[q].status = 401) =>
                 http'[q] = http[q]]_vars

\* a share-data with the token of an app that has just been deleted was
\* answered 401, having generated and written nothing
C16_Witness ==
    /\ http[1].kind = "register" /\ http[1].status = 200
    /\ http[2].kind = "delete_app_widget" /\ http[2].status = 200
    /\ http[3].kind = "share_data" /\ http[3].pc = "done"
    /\ http[3].integration_token = http[1].inserted
    /\ http[3].status = 401
    /\ http[3].detail = "Invalid integration token"
    /\ http[3].generations = 0 /\ http[3].writes = 0
    /\ widgets = {}

\* C17: when DELETE /api/app-widgets/{app_id} answers, a successful answer
\* leaves no app with that id, no widget with that app_id and no app holding
\* the removed app's integration token; and when no app with that id
\* existed the answer is 404.
C17_DeleteRemovesBoth ==
    [][\A q \in HttpRequests :
          (http[q].pc = "delete_app" /\ http'[q].pc = "done") =>
             /\ http'[q].status = 200 =>
                   /\ \A a \in apps' : a._id # http[q].app_id.oid
                   /\ \A w \in widgets' : w.app_id # http[q].app_id.oid
                   /\ \A a \in apps \ apps' : \A b \in apps' :
                          b.integration_token # a.integration_token
             /\ (\A a \in apps : ~(http[q].app_id.valid /\ a._id = http[q].app_id.oid))
                   => http'[q].status = 404]_vars

\* what the first <html ...> tag with an </html> after it encloses, trimmed
HtmlContent(t) ==
    With(FindFrom(t, GT, DocumentAt(t) + 5, FALSE), LAMBDA j :
        strip(Slice(t, j + 1, FindFrom(t, Chars("</html>"), j + 1, TRUE) - 1)))
\* c up to the first place where one of the phrases stands, in any case,
\* trimmed
BeforePhrase(c, phrases) ==
    With({p \in 1..Len(c) : \E ph \in phrases : LitAt(c, p, Chars(ph), TRUE)},
         LAMBDA P : IF P = {} THEN c ELSE strip(Slice(c, 1, SetMin(P) - 1)))
SixPhrases == {"Here's", "This widget", "The widget", "The design", "This", "These"}
FourPhrases == {"Here's", "This widget", "The widget", "The design"}

\* C21 as stated: when method 2 decides (document tags, no html fence), the
\* fragment is what the tags enclose cut at the first of Here's, This widget,
\* The widget, The design, This, These, wherever it stands, and cleaned.
C21_SixPhrasesCut ==
    \A r \in Requests :
        (/\ pc[r] = "done"
         /\ branch[r] \in ExtractionBranches
         /\ ~HasHtmlFencedBlock(response_text[r])
         /\ DocumentAt(response_text[r]) # 0) =>
              /\ branch[r] = "method2"
              /\ result[r] =
                    clean_html(BeforePhrase(HtmlContent(response_text[r]), SixPhrases))

\* C21 amended: when method 2 decides, the fragment is what the tags enclose
\* cut at the first of Here's, This widget, The widget, The design, in any
\* case and wherever it stands (no blank line is needed before it), and
\* cleaned; a bare This or These cuts nothing.
C21_FourPhrasesCut ==
    \A r \in Requests :
        (/\ pc[r] = "done"
         /\ branch[r] \in ExtractionBranches
         /\ ~HasHtmlFencedBlock(response_text[r])
         /\ DocumentAt(response_text[r]) # 0) =>
              /\ branch[r] = "method2"
              /\ result[r] =
                    clean_html(BeforePhrase(HtmlContent(response_text[r]), FourPhrases))

\* a document whose content is This followed at once by "the design": the
\* cut was made at "the design" and This was kept
C21_Witness ==
    /\ pc[1] = "done"
    /\ response_text[1] = Chars("<html>Thisthe design</html>")
    /\ branch[1] = "method2"
    /\ result[1] = Chars("This")

\* where the first fence of t starts and where the next fence after it
\* starts (0: nowhere)
FirstFenceAt(t) == FindFrom(t, Fence, 1, FALSE)
NextFenceAt(t) ==
    IF FirstFenceAt(t) = 0 THEN 0 ELSE FindFrom(t, Fence, FirstFenceAt(t) + 3, FALSE)
HasFencedBlock(t) == NextFenceAt(t) # 0
\* what the first fenced block of t encloses after its language tag (the
\* lower-case letters that follow the fence), trimmed
AnyFencedContent(t) ==
    With(FirstFenceAt(t) + 3, LAMBDA from :
    With({k \in from..NextFenceAt(t) : t[k] \notin LowerSet}, LAMBDA S :
        strip(Slice(t, SetMin(S), NextFenceAt(t) - 1))))
\* c holds an angle bracket and the token div or the token style, in any case
LooksLikeHtml(c) ==
    /\ \E i \in 1..Len(c) : c[i] = "<"
    /\ \/ FindFrom(c, Chars("div"), 1, TRUE) # 0
       \/ FindFrom(c, Chars("style"), 1, TRUE) # 0

C25_FragmentNeverEmpty ==
    \A r \in Requests : pc[r] = "done" => result[r] # <<>>

\* C29: when the completion text holds both a '<' and a '>', the fragment
\* does not come from the last-resort wrapper but from one of methods 1 to 6.
C29_NoLastResortWithBrackets ==
    \A r \in Requests :
        (/\ pc[r] = "done"
         /\ branch[r] \in ExtractionBranches
         /\ \E i \in 1..Len(response_text[r]) : response_text[r][i] = "<"
         /\ \E i \in 1..Len(response_text[r]) : response_text[r][i] = ">") =>
              /\ branch[r] \in {"method1", "method2", "method3", "method4",
                                "method5", "method6"}
              /\ result[r] # last_resort(response_text[r])

\* a text that starts with a word, with a <br> on its second line: only the
\* line filter returned, with the one line it collected
C29_Witness ==
    /\ pc[1] = "done"
    /\ response_text[1] = Chars("This\n<br>")
    /\ branch[1] = "method6"
    /\ result[1] = Chars("<br>")

\* C30: the moment comes when every one of the concurrent calls of
\* generate_widget_html has returned a fragment, also when they are more
\* than the pool has workers; and a call
\* handed to the executor is not given up: from the queue it only goes to a
\* worker, from a worker it only comes back with a text or an exception, and
\* a call that has come back only goes on to return its fragment.
C30_EveryRequestServed ==
    /\ <>(\A r \in Requests : pc[r] = "done" /\ branch[r] # "none")
    /\ [][\A r \in Requests :
             /\ pc[r] = "queued" => pc'[r] \in {"queued", "running"}
             /\ pc[r] = "running" => pc'[r] \in {"running", "returned", "raised"}
             /\ pc[r] \in {"returned", "raised"} => pc'[r] \in {pc[r], "done"}
             /\ pc[r] = "done" => pc'[r] = "done"]_vars

\* all NumRequests calls, more than the pool has workers, have called the
\* provider and returned a fragment
C30_Witness ==
    /\ NumRequests > MAX_WORKERS
    /\ \A r \in Requests :
          /\ pc[r] = "done"
          /\ calls[r] # <<>>
          /\ branch[r] # "none"

\* C23: every stored app widget is the widget of an app that is registered.
C23_NoWidgetWithoutApp ==
    \A w \in widgets :
        w.app_id # 0 => \E a \in apps : a._id = w.app_id


\* C28: once delete_user_widget has succeeded for a widget id, no widget with
\* that id exists in any later state, whatever the requests on that widget
\* that had found it before the delete do afterwards.
C28_DeletedNeverRecreated ==
    \A q \in HttpRequests :
        (/\ http[q].kind = "delete_user_widget"
         /\ http[q].pc = "done"
         /\ http[q].status = 200)
        => ~\E w \in widgets : w._id = http[q].widget_id.oid

\* a delete has succeeded for a widget while an earlier edit, refresh or full
\* refresh of that widget, which had found it, has its update still to make
C28_Witness ==
    \E p, q \in HttpRequests :
        /\ http[q].kind = "delete_user_widget"
        /\ http[q].pc = "done"
        /\ http[q].status = 200
        /\ http[p].kind \in {"edit_user_widget", "refresh_user_widget",
                             "full_refresh_user_widget"}
        /\ http[p].pc = "update_user_widget"
        /\ http[p].widget_id = http[q].widget_id


\* the widget a refresh is about
RefreshKinds ==
    {"refresh_user_widget", "full_refresh_user_widget",
     "refresh_app_widget", "full_refresh_app_widget"}
RefreshTarget(h, w) ==
    IF h.kind \in {"refresh_app_widget", "full_refresh_app_widget"}
    THEN w.app_id = h.app_id.oid
    ELSE w._id = h.widget_id.oid
StyleMarker == Chars("CRITICAL STYLE PRESERVATION REQUIREMENTS")

\* C27: the update of a refresh or full refresh, of a user widget or of an app
\* widget, changes nothing but generated_html of its target (updated_at, a
\* time, is not part of the state): every other widget stays as it is, no
\* widget is added or removed, and the target keeps its render_prompt and its
\* data; no stored render_prompt ever holds the style-preservation text.
C27_RefreshChangesOnlyHtml ==
    /\ [][\A q \in HttpRequests :
            (/\ http[q].kind \in RefreshKinds
             /\ http[q].pc \in {"update_app_widget", "update_user_widget"}
             /\ http'[q].pc = "done")
            => /\ \A w \in widgets :
                     IF RefreshTarget(http[q], w)
                     THEN \E v \in widgets' : w = [v EXCEPT !.generated_html = w.generated_html]
                     ELSE w \in widgets'
               /\ \A v \in widgets' : \E w \in widgets : w._id = v._id]_vars
    /\ [](\A w \in widgets : ~Contains(w.render_prompt, StyleMarker))

\* a refresh of the stored app widget, generated from the stored prompt with
\* the style text appended, has written its fragment, and nothing else has
\* been asked for
C27_Witness ==
    \E q \in HttpRequests :
        /\ http[q].kind = "refresh_app_widget"
        /\ http[q].pc = "done"
        /\ http[q].status = 200
        /\ http[q].writes = 1
        /\ \A p \in HttpRequests \ {q} : http[p].pc = "idle"
        /\ \E w \in widgets :
              /\ w.app_id = http[q].app_id.oid
              /\ w.generated_html = GenerationErrorFragment(Err529)
              /\ w.render_prompt = StoredAppWidget.render_prompt
              /\ Contains(RegenerationPrompt("refresh_app_widget", StoredAppWidget),
                          StyleMarker \o Chars(":\n"))


\* the error card a failed completion ends in
ErrorCard == GenerationErrorFragment(Err529)

C26_OneWidgetPerApp ==
    \A v, w \in widgets : (v.app_id # 0 /\ v.app_id = w.app_id) => v = w

====
